---- MODULE Spec2Model ----
(***************************************************************************)
(* Token-budget transcript truncation of the gateway (round-based          *)
(* truncateIfNeeded, groupIntoRounds, validateMessages, estimateTokens),   *)
(* its response converters (processChunk and what it calls,                *)
(* convertNonStreamingResponse) and messagesFn of the server up to the     *)
(* upstream request.                                                       *)
(*                                                                         *)
(* A message is a record                                                   *)
(*   [role, isArray, str, content]                                         *)
(* where content is the block array when isArray, and str is the length of *)
(* the string content otherwise.  A block is [type, id, len]: id is the    *)
(* tool id (0 = no id), len the length of its text / result string.        *)
(* Indices into the transcript are 0-based as in the source; At(s, i) is   *)
(* s[i] of the source.                                                     *)
(***************************************************************************)
EXTENDS Integers, Sequences, FiniteSets, TLC

VARIABLES
    messages,       \* body.messages
    hasMessages,    \* FALSE when body.messages is undefined
    system,         \* length of the body.system string, -1 when undefined
    tools,          \* number of entries of body.tools, -1 when undefined
    tokenLimit,     \* the tokenLimit argument of the call
    pc,             \* "build" | "done" | "grouped"
    ret,            \* return value of truncateIfNeeded
    orig,           \* body.messages as it was when the call started
    rounds,         \* the local `rounds` (result of groupIntoRounds)
    roundsToRemove, \* the local `roundsToRemove`
    issues,         \* the local `issues` (result of validateMessages)
    srv,            \* one run of messagesFn: [pc, status, sent]
    state,          \* the ConverterState of one stream
    chunk,          \* the lines of the chunk last given to processChunk
    results,        \* what that call of processChunk returned
    written,        \* every result returned so far, in order
    fed,            \* every line given to processChunk so far, in order
    response,       \* the non-streaming exchange: [pc, in, out]
    heap,           \* the ConverterState objects that exist, by reference
    connections,    \* the streaming connections: [converterState, chunks,
                    \*   results, written]
    estimate,       \* the value of the last call estimateTokens(body)
    cleanup,        \* the last call cleanupOrphanedToolMessages: [passes, changed]
    upstream        \* the upstream byte stream read so far: [lines, inside],
                    \*   inside when the last line is read only in part

truncVars == <<messages, hasMessages, system, tools, tokenLimit, pc, ret, orig,
               rounds, roundsToRemove, issues>>

streamVars == <<state, chunk, results, written, fed>>

connVars == <<heap, connections>>

vars == <<messages, hasMessages, system, tools, tokenLimit, pc, ret, orig,
          rounds, roundsToRemove, issues, srv, state, chunk, results, written,
          fed, response, heap, connections, estimate, cleanup, upstream>>

----------------------------------------------------------------------------
(* Bounds of the model *)

MaxLen == 5          \* longest transcript built
MaxToolLen == 9      \* longest transcript built in the single-round scenario
ShortText == 3       \* characters of a short string
LongText == 40       \* characters of a long string
SysLen == 5          \* characters of body.system when present
MaxOverage == 3      \* number of overage steps tried beyond 0 and 1
OverageStep == 11    \* tokens between two overage steps
MaxArgLines == 5     \* lines of a stream of tool calls
MaxThinkLines == 4   \* lines of a stream of one thinking block
MaxAnswerLines == 6  \* lines of a stream of thinking and text blocks
MaxStreamLines == 5  \* lines of a stream of one whole response
MaxUsageLines == 3   \* lines of a stream of usage reports and stop reasons
SmallPayload == 10   \* characters of a small base64 image payload
LargePayload == 900  \* characters of a large one
MaxReads == 3        \* chunks the upstream sends before it ends the stream
MaxConnChunks == 4   \* chunks read by two concurrent connections together
MaxOpeningLen == 3   \* text messages that open a long tool-call conversation
MaxCascadeLen == 22  \* messages of a long tool-call conversation
MaxSplitLines == 3   \* frames of an upstream stream cut into chunks at any byte
MaxExactOverage == 22 \* largest overage tried token by token
MaxTrackerLines == 5 \* lines of a stream of tool calls, thinking and stops
MaxGlobalLen == 7    \* messages of a transcript given to the single-pass version
MaxMiddleLen == 8    \* messages of a transcript truncated from the middle

(* Program constants *)

MIN_MESSAGES_TO_KEEP == 4
TOKENS_PER_IMAGE == 1600
IMAGE_PLACEHOLDER_LEN == 7     \* '[IMAGE]'.length
preserveStart == 2
MaxPasses == 10                \* while (changed && passes < 10)

----------------------------------------------------------------------------
(* Helpers for 0-based indexing and JS array primitives *)

At(s, i) == s[i + 1]

\* Array.prototype.slice(from, to) with 0 <= from, to <= length
Slice(s, from, to) == IF to <= from THEN <<>> ELSE SubSeq(s, from + 1, to)

\* Array.prototype.splice(idx, 1): removes the element at idx when there is one
Splice1(s, idx) ==
    IF idx < 0 \/ idx >= Len(s) THEN s
    ELSE SubSeq(s, 1, idx) \o SubSeq(s, idx + 2, Len(s))

\* Math.ceil(n / CHARS_PER_TOKEN) with CHARS_PER_TOKEN = 3.5 = 7/2
CeilTokens(n) == (2 * n + 6) \div 7

----------------------------------------------------------------------------
(* JSON.stringify(...).length of the data model *)

StrJson(n) == n + 2

\* {"type":"text","text":S} | {"type":"tool_use","id":"tN","name":"f","input":{}}
\* | {"type":"tool_result","tool_use_id":"tN","content":S}
\* | {"type":"image","source":{"type":"base64","media_type":"image/png","data":S}}
BlockJson(b) ==
    CASE b.type = "text" -> 23 + StrJson(b.len)
      [] b.type = "tool_use" -> 51
      [] b.type = "tool_result" -> 52 + StrJson(b.len)
      [] b.type = "image" -> 76 + StrJson(b.len)

RECURSIVE SumBlockJson(_, _)
SumBlockJson(content, k) ==
    IF k > Len(content) THEN 0 ELSE BlockJson(content[k]) + SumBlockJson(content, k + 1)

ContentJson(msg) ==
    IF msg.isArray
    THEN 2 + SumBlockJson(msg.content, 1)
           + (IF Len(msg.content) > 0 THEN Len(msg.content) - 1 ELSE 0)
    ELSE StrJson(msg.str)

RoleLen(role) == IF role = "user" THEN 4 ELSE 9

\* {"role":R,"content":C}
MsgJson(msg) == 22 + RoleLen(msg.role) + ContentJson(msg)

RECURSIVE SumMsgJson(_, _)
SumMsgJson(msgs, k) ==
    IF k > Len(msgs) THEN 0 ELSE MsgJson(msgs[k]) + SumMsgJson(msgs, k + 1)

MessagesJson(msgs) ==
    2 + SumMsgJson(msgs, 1) + (IF Len(msgs) > 0 THEN Len(msgs) - 1 ELSE 0)

\* one tool definition {"name":"f","description":"","input_schema":{}}
ToolsJson(n) == 2 + 47 * n + (IF n > 0 THEN n - 1 ELSE 0)

\* {"system":S,"tools":T,"messages":M}, undefined members left out
BodyJson(sys, tls, hasMsgs, msgs) ==
    LET parts == (IF sys >= 0 THEN <<9 + StrJson(sys)>> ELSE <<>>)
              \o (IF tls >= 0 THEN <<8 + ToolsJson(tls)>> ELSE <<>>)
              \o (IF hasMsgs THEN <<11 + MessagesJson(msgs)>> ELSE <<>>)
        sum == IF Len(parts) = 0 THEN 0
               ELSE IF Len(parts) = 1 THEN parts[1]
               ELSE IF Len(parts) = 2 THEN parts[1] + parts[2]
               ELSE parts[1] + parts[2] + parts[3]
    IN 2 + sum + (IF Len(parts) > 0 THEN Len(parts) - 1 ELSE 0)

----------------------------------------------------------------------------
(* estimateTokens; estimateMessageTokens on image-free content.  An image
   block is [type |-> "image", id |-> 0, len]: a block with a base64 source
   whose data has len characters. *)

\* msg.content.some(part => ... part.source?.type === 'base64')
hasImage(msg) == \E k \in 1..Len(msg.content) : msg.content[k].type = "image"

StripPartKeepsData(part) == part

\* { ...part, source: { ...part.source, data: '[IMAGE]' } } for a base64 part
StripPart(part) ==
    IF part.type = "image" THEN [part EXCEPT !.len = IMAGE_PLACEHOLDER_LEN] ELSE part

\* the callback of messages.map
StripMessage(msg) ==
    IF ~msg.isArray THEN msg
    ELSE IF ~hasImage(msg) THEN msg
    ELSE [msg EXCEPT !.content = [k \in 1..Len(msg.content) |-> StripPart(msg.content[k])]]

RECURSIVE CountImages(_, _)
\* the imageCount++ of the messages msgs[k..]
CountImages(msgs, k) ==
    IF k > Len(msgs) THEN 0
    ELSE (IF msgs[k].isArray
          THEN Cardinality({j \in 1..Len(msgs[k].content) : msgs[k].content[j].type = "image"})
          ELSE 0) + CountImages(msgs, k + 1)

stripBase64FromMessages(msgs) ==
    [messages |-> [k \in 1..Len(msgs) |-> StripMessage(msgs[k])],
     imageCount |-> CountImages(msgs, 1)]

\* textTokens + imageTokens for the cleaned messages
EstimateCleaned(sys, tls, cleaned) ==
    CeilTokens(BodyJson(sys, tls, TRUE, cleaned.messages))
        + cleaned.imageCount * TOKENS_PER_IMAGE

\* estimateTokens(body)
estimateTokens(sys, tls, hasMsgs, msgs) ==
    IF hasMsgs THEN EstimateCleaned(sys, tls, stripBase64FromMessages(msgs))
    ELSE CeilTokens(BodyJson(sys, tls, hasMsgs, msgs))

estimateMessageTokens(msg) == CeilTokens(MsgJson(msg))

----------------------------------------------------------------------------
(* groupIntoRounds *)

isPureToolResultWrongType(msg) ==
    /\ msg.isArray
    /\ Len(msg.content) > 0
    /\ \A k \in 1..Len(msg.content) : msg.content[k].type = "tool_use"

isPureToolResultSome(msg) ==
    /\ msg.isArray
    /\ Len(msg.content) > 0
    /\ \E k \in 1..Len(msg.content) : msg.content[k].type = "tool_result"

\* Array.isArray(msg.content) && msg.content.length > 0 && msg.content.every(tool_result)
isPureToolResult(msg) ==
    /\ msg.isArray
    /\ Len(msg.content) > 0
    /\ \A k \in 1..Len(msg.content) : msg.content[k].type = "tool_result"

RECURSIVE SumTokens(_, _, _)
\* for (j = from; j < to; j++) tokens += estimateMessageTokens(messages[j])
SumTokens(msgs, from, to) ==
    IF from >= to THEN 0
    ELSE estimateMessageTokens(At(msgs, from)) + SumTokens(msgs, from + 1, to)

\* the Round pushed for the span [startIdx, endIdx)
MakeRound(msgs, startIdx, endIdx) ==
    [startIdx |-> startIdx, endIdx |-> endIdx,
     tokens |-> SumTokens(msgs, startIdx, endIdx), msgCount |-> endIdx - startIdx]

CloseLastRoundDropped(msgs, roundStart, acc) == acc

\* "Close the last round"
CloseLastRound(msgs, roundStart, acc) ==
    Append(acc, MakeRound(msgs, roundStart, Len(msgs)))

RECURSIVE GroupLoop(_, _, _, _)
\* the scan for (i = 1; i < messages.length; i++)
GroupLoop(msgs, i, roundStart, acc) ==
    IF i >= Len(msgs) THEN CloseLastRound(msgs, roundStart, acc)
    ELSE IF At(msgs, i).role = "user" /\ ~isPureToolResult(At(msgs, i))
         THEN GroupLoop(msgs, i + 1, i, Append(acc, MakeRound(msgs, roundStart, i)))
         ELSE GroupLoop(msgs, i + 1, roundStart, acc)

groupIntoRounds(msgs) == GroupLoop(msgs, 1, 0, <<>>)

----------------------------------------------------------------------------
(* validateMessages *)

\* ids of the tool_use blocks of an assistant message with array content
getToolUseIds(msg) ==
    IF msg.role = "assistant" /\ msg.isArray
    THEN {msg.content[k].id : k \in {j \in 1..Len(msg.content) :
             msg.content[j].type = "tool_use" /\ msg.content[j].id # 0}}
    ELSE {}

getToolResultIdsById(msg) == {}

\* tool_use_ids of the tool_result blocks of a user message with array content
getToolResultIds(msg) ==
    IF msg.role = "user" /\ msg.isArray
    THEN {msg.content[k].id : k \in {j \in 1..Len(msg.content) :
             msg.content[j].type = "tool_result" /\ msg.content[j].id # 0}}
    ELSE {}

Issue(kind, at, id) == [kind |-> kind, at |-> at, id |-> id]

RECURSIVE ConsecutiveIssues(_, _)
ConsecutiveIssues(msgs, i) ==
    IF i >= Len(msgs) THEN <<>>
    ELSE (IF At(msgs, i).role = At(msgs, i - 1).role
          THEN <<Issue("consecutive", i, 0)>> ELSE <<>>)
         \o ConsecutiveIssues(msgs, i + 1)

RECURSIVE BlockIssues(_, _, _)
\* the orphan checks over the blocks of message i, from block k on
BlockIssues(msgs, i, k) ==
    LET msg == At(msgs, i)
        prevUseIds == IF i > 0 THEN getToolUseIds(At(msgs, i - 1)) ELSE {}
        nextResultIds == IF i + 1 < Len(msgs) THEN getToolResultIds(At(msgs, i + 1)) ELSE {}
    IN IF ~msg.isArray \/ k > Len(msg.content) THEN <<>>
       ELSE LET b == msg.content[k] IN
            (IF msg.role = "user" /\ b.type = "tool_result" /\ b.id # 0
                /\ b.id \notin prevUseIds
             THEN <<Issue("orphaned tool_result", i, b.id)>>
             ELSE IF msg.role = "assistant" /\ b.type = "tool_use" /\ b.id # 0
                     /\ b.id \notin nextResultIds
             THEN <<Issue("orphaned tool_use", i, b.id)>>
             ELSE <<>>)
            \o BlockIssues(msgs, i, k + 1)

RECURSIVE OrphanIssues(_, _)
OrphanIssues(msgs, i) ==
    IF i >= Len(msgs) THEN <<>>
    ELSE BlockIssues(msgs, i, 1) \o OrphanIssues(msgs, i + 1)

validateMessages(msgs) ==
    IF Len(msgs) = 0 THEN <<Issue("No messages", 0, 0)>>
    ELSE (IF At(msgs, 0).role # "user" THEN <<Issue("first not user", 0, 0)>> ELSE <<>>)
         \o ConsecutiveIssues(msgs, 1)
         \o OrphanIssues(msgs, 0)

----------------------------------------------------------------------------
(* truncateIfNeeded (round-based) *)

RECURSIVE MarkLoopNoBreak(_, _, _, _, _)
MarkLoopNoBreak(removable, r, removedTokens, acc, overageTokens) ==
    IF r >= Len(removable) THEN acc
    ELSE MarkLoopNoBreak(removable, r + 1, removedTokens + At(removable, r).tokens,
                         Append(acc, r + 1), overageTokens)

RECURSIVE MarkLoopFromZero(_, _, _, _, _)
MarkLoopFromZero(removable, r, removedTokens, acc, overageTokens) ==
    IF r >= Len(removable) THEN acc
    ELSE LET acc2 == Append(acc, r)
             removed2 == removedTokens + At(removable, r).tokens
         IN IF removed2 >= overageTokens THEN acc2
            ELSE MarkLoopFromZero(removable, r + 1, removed2, acc2, overageTokens)

RECURSIVE MarkLoop(_, _, _, _, _)
\* for (r = 0; r < removableRounds.length; r++) { push(r + 1); removedTokens += ...;
\*   if (removedTokens >= overageTokens) break }
MarkLoop(removable, r, removedTokens, acc, overageTokens) ==
    IF r >= Len(removable) THEN acc
    ELSE LET acc2 == Append(acc, r + 1)
             removed2 == removedTokens + At(removable, r).tokens
         IN IF removed2 >= overageTokens THEN acc2
            ELSE MarkLoop(removable, r + 1, removed2, acc2, overageTokens)

\* rounds.slice(1, -1)
removableRounds(rnds) == Slice(rnds, 1, Len(rnds) - 1)

RoundIndicesNone(idx, endIdx) == <<>>

RECURSIVE RoundIndices(_, _)
\* for (idx = round.startIdx; idx < round.endIdx; idx++) indicesToRemove.push(idx)
RoundIndices(idx, endIdx) ==
    IF idx >= endIdx THEN <<>> ELSE <<idx>> \o RoundIndices(idx + 1, endIdx)

RECURSIVE indicesToRemove(_, _, _)
\* for (const roundIdx of roundsToRemove) ... , from position k of roundsToRemove on
indicesToRemove(rnds, toRemove, k) ==
    IF k > Len(toRemove) THEN <<>>
    ELSE RoundIndices(At(rnds, toRemove[k]).startIdx, At(rnds, toRemove[k]).endIdx)
         \o indicesToRemove(rnds, toRemove, k + 1)

RECURSIVE InsertDesc(_, _)
InsertDesc(x, sorted) ==
    IF Len(sorted) = 0 THEN <<x>>
    ELSE IF x >= Head(sorted) THEN <<x>> \o sorted
    ELSE <<Head(sorted)>> \o InsertDesc(x, Tail(sorted))

RECURSIVE SortDescFrom(_, _)
SortDescFrom(s, k) ==
    IF k > Len(s) THEN <<>> ELSE InsertDesc(s[k], SortDescFrom(s, k + 1))

SortUnsorted(s) == s

\* indicesToRemove.sort((a, b) => b - a)
SortDesc(s) == SortDescFrom(s, 1)

RECURSIVE SpliceLoop(_, _, _)
SpliceLoop(msgs, indices, k) ==
    IF k > Len(indices) THEN msgs
    ELSE SpliceLoop(Splice1(msgs, indices[k]), indices, k + 1)

SpliceNothing(msgs, indices) == msgs

\* for (const idx of indicesToRemove) messages.splice(idx, 1)
SpliceAll(msgs, indices) == SpliceLoop(msgs, indices, 1)

KeepFloorStrict(hasMsgs, msgs) == ~hasMsgs \/ Len(msgs) < MIN_MESSAGES_TO_KEEP

\* !messages || messages.length <= MIN_MESSAGES_TO_KEEP
TooFewMessages(hasMsgs, msgs) == ~hasMsgs \/ Len(msgs) <= MIN_MESSAGES_TO_KEEP

NoChange(msgs) ==
    [ret |-> FALSE, messages |-> msgs, rounds |-> <<>>, roundsToRemove |-> <<>>,
     issues |-> <<>>]

ReturnBlockedByIssues(iss) == iss = <<>>

\* the issues are logged and the call goes on to `return true`
ReturnAfterValidation(iss) == TRUE

\* The whole call: the value it returns, body.messages as it leaves it, and the
\* locals rounds, roundsToRemove and issues (empty when the call returns before
\* computing them).
truncateIfNeeded(sys, tls, hasMsgs, msgs, limit) ==
    LET totalEstimate == estimateTokens(sys, tls, hasMsgs, msgs)
        overageTokens == totalEstimate - limit
        rnds == groupIntoRounds(msgs)
        toRemove == MarkLoop(removableRounds(rnds), 0, 0, <<>>, overageTokens)
        indices == SortDesc(indicesToRemove(rnds, toRemove, 1))
        after == SpliceAll(msgs, indices)
    IN IF totalEstimate <= limit THEN NoChange(msgs)
       ELSE IF TooFewMessages(hasMsgs, msgs) THEN NoChange(msgs)
       ELSE IF Len(rnds) <= 2 THEN [NoChange(msgs) EXCEPT !.rounds = rnds]
       ELSE IF Len(toRemove) = 0 THEN [NoChange(msgs) EXCEPT !.rounds = rnds]
       ELSE [ret |-> ReturnAfterValidation(validateMessages(after)),
             messages |-> after, rounds |-> rnds,
             roundsToRemove |-> toRemove, issues |-> validateMessages(after)]

----------------------------------------------------------------------------
(* Middle-removal truncateIfNeeded and cleanupOrphanedToolMessages *)

HasBlockOfType(msg, type) == \E k \in 1..Len(msg.content) : msg.content[k].type = type

\* content.filter(block => !(block.type === type && id) || ids.has(id))
RECURSIVE FilterBlocks(_, _, _, _)
FilterBlocks(content, type, ids, k) ==
    IF k > Len(content) THEN <<>>
    ELSE (IF content[k].type = type /\ content[k].id # 0 /\ content[k].id \notin ids
          THEN <<>> ELSE <<content[k]>>) \o FilterBlocks(content, type, ids, k + 1)

\* the body of passes 1 and 2 at index i: the message's content is filtered, and
\* the message is spliced out when nothing is left of it
FilterAt(msgs, i, type, ids) ==
    LET kept == FilterBlocks(At(msgs, i).content, type, ids, 1)
    IN [messages |-> IF Len(kept) = 0 THEN Splice1(msgs, i)
                     ELSE [msgs EXCEPT ![i + 1].content = kept],
        changed |-> Len(kept) < Len(At(msgs, i).content) \/ Len(kept) = 0]

\* Pass 1: tool_result blocks must name a tool_use of the message right before
RECURSIVE Pass1(_, _, _)
Pass1(msgs, i, changed) ==
    IF i < 0 THEN [messages |-> msgs, changed |-> changed]
    ELSE IF At(msgs, i).role # "user" \/ ~At(msgs, i).isArray
            \/ ~HasBlockOfType(At(msgs, i), "tool_result")
         THEN Pass1(msgs, i - 1, changed)
         ELSE LET prevToolUseIds == IF i > 0 THEN getToolUseIds(At(msgs, i - 1)) ELSE {}
                  r == FilterAt(msgs, i, "tool_result", prevToolUseIds)
              IN Pass1(r.messages, i - 1, changed \/ r.changed)

\* Pass 2: tool_use blocks must be answered in the message right after
RECURSIVE Pass2(_, _, _)
Pass2(msgs, i, changed) ==
    IF i < 0 THEN [messages |-> msgs, changed |-> changed]
    ELSE IF At(msgs, i).role # "assistant" \/ ~At(msgs, i).isArray
            \/ ~HasBlockOfType(At(msgs, i), "tool_use")
         THEN Pass2(msgs, i - 1, changed)
         ELSE LET nextToolResultIds ==
                      IF i + 1 < Len(msgs) THEN getToolResultIds(At(msgs, i + 1)) ELSE {}
                  r == FilterAt(msgs, i, "tool_use", nextToolResultIds)
              IN Pass2(r.messages, i - 1, changed \/ r.changed)

Pass3KeepsDuplicates(msgs, i, changed) == [messages |-> msgs, changed |-> changed]

RECURSIVE Pass3(_, _, _)
\* Pass 3: the later of two consecutive messages of one role is spliced out
Pass3(msgs, i, changed) ==
    IF i <= 0 THEN [messages |-> msgs, changed |-> changed]
    ELSE IF At(msgs, i).role = At(msgs, i - 1).role
         THEN Pass3(Splice1(msgs, i), i - 1, TRUE)
         ELSE Pass3(msgs, i - 1, changed)

\* while (messages.length > 0 && messages[0].role !== 'user') messages.splice(0, 1)
RECURSIVE DropLeading(_, _)
DropLeading(msgs, changed) ==
    IF Len(msgs) > 0 /\ At(msgs, 0).role # "user"
    THEN DropLeading(Splice1(msgs, 0), TRUE)
    ELSE [messages |-> msgs, changed |-> changed]

\* the loop while (changed && passes < 10), passes turns done before this
\* one: the array as the loop leaves it, the turns it made, and whether the
\* last one changed the array
RECURSIVE CleanupLoop(_, _)
CleanupLoop(msgs, passes) ==
    LET p1 == Pass1(msgs, Len(msgs) - 1, FALSE)
        p2 == Pass2(p1.messages, Len(p1.messages) - 1, p1.changed)
        p3 == Pass3(p2.messages, Len(p2.messages) - 1, p2.changed)
        p4 == DropLeading(p3.messages, p3.changed)
    IN IF p4.changed /\ passes + 1 < MaxPasses
       THEN CleanupLoop(p4.messages, passes + 1)
       ELSE [messages |-> p4.messages, passes |-> passes + 1, changed |-> p4.changed]

cleanupOrphanedToolMessages(msgs) == CleanupLoop(msgs, 0).messages

\* the loop that extends the removed range [removableStart, removeToIdx) until
\* the tokens removed cover the overage
RECURSIVE RemoveToIdx(_, _, _, _, _)
RemoveToIdx(msgs, i, removedTokens, overageTokens, removableEnd) ==
    IF i >= removableEnd THEN i
    ELSE IF removedTokens + estimateMessageTokens(At(msgs, i)) >= overageTokens
         THEN i + 1
         ELSE RemoveToIdx(msgs, i + 1, removedTokens + estimateMessageTokens(At(msgs, i)),
                          overageTokens, removableEnd)

\* truncateIfNeeded(body, tokenLimit) of the middle-removal version: the value
\* it returns and body.messages as it leaves it
truncateIfNeededMiddle(sys, tls, hasMsgs, msgs, limit) ==
    LET totalEstimate == estimateTokens(sys, tls, hasMsgs, msgs)
        overageTokens == totalEstimate - limit
        removableStart == preserveStart
        removableEnd == Len(msgs) - MIN_MESSAGES_TO_KEEP
        removeToIdx == RemoveToIdx(msgs, removableStart, 0, overageTokens, removableEnd)
        spliced == Slice(msgs, 0, removableStart) \o Slice(msgs, removeToIdx, Len(msgs))
    IN IF totalEstimate <= limit THEN [ret |-> FALSE, messages |-> msgs]
       ELSE IF ~hasMsgs \/ Len(msgs) <= MIN_MESSAGES_TO_KEEP
            THEN [ret |-> FALSE, messages |-> msgs]
       ELSE IF removableStart >= removableEnd THEN [ret |-> FALSE, messages |-> msgs]
       ELSE IF removeToIdx - removableStart > 0
            THEN [ret |-> TRUE, messages |-> cleanupOrphanedToolMessages(spliced)]
            ELSE [ret |-> FALSE, messages |-> msgs]

----------------------------------------------------------------------------
(* Middle-removal truncateIfNeeded with the single-pass
   cleanupOrphanedToolMessages, which collects the tool ids of the whole
   transcript *)

\* the ids of the blocks of one type in the array messages of one role
AllIds(msgs, role, type) ==
    {b.id : b \in {x \in UNION {{m.content[k] : k \in 1..Len(m.content)} :
                                   m \in {At(msgs, i) : i \in {j \in 0..(Len(msgs) - 1) :
                                       At(msgs, j).role = role /\ At(msgs, j).isArray}}} :
                     x.type = type /\ x.id # 0}}

\* one of the two filtering loops: in every array message of the role, the
\* blocks of the type whose id is not among ids are dropped, and a message
\* whose content is (or was) empty is spliced out
RECURSIVE GlobalPass(_, _, _, _, _)
GlobalPass(msgs, i, role, type, ids) ==
    IF i < 0 THEN msgs
    ELSE IF At(msgs, i).role = role /\ At(msgs, i).isArray
         THEN GlobalPass(FilterAt(msgs, i, type, ids).messages, i - 1, role, type, ids)
         ELSE GlobalPass(msgs, i - 1, role, type, ids)

cleanupOrphanedToolMessagesGlobal(msgs) ==
    LET toolUseIds == AllIds(msgs, "assistant", "tool_use")
        toolResultIds == AllIds(msgs, "user", "tool_result")
        r1 == GlobalPass(msgs, Len(msgs) - 1, "user", "tool_result", toolUseIds)
        r2 == GlobalPass(r1, Len(r1) - 1, "assistant", "tool_use", toolResultIds)
        r3 == Pass3(r2, Len(r2) - 1, FALSE).messages
    IN DropLeading(r3, FALSE).messages

\* truncateIfNeeded(body, tokenLimit) of that version: the value it returns and
\* body.messages as it leaves it
truncateIfNeededGlobal(sys, tls, hasMsgs, msgs, limit) ==
    LET totalEstimate == estimateTokens(sys, tls, hasMsgs, msgs)
        overageTokens == totalEstimate - limit
        removableStart == preserveStart
        removableEnd == Len(msgs) - MIN_MESSAGES_TO_KEEP
        removeToIdx == RemoveToIdx(msgs, removableStart, 0, overageTokens, removableEnd)
        spliced == Slice(msgs, 0, removableStart) \o Slice(msgs, removeToIdx, Len(msgs))
    IN IF totalEstimate <= limit THEN [ret |-> FALSE, messages |-> msgs]
       ELSE IF ~hasMsgs \/ Len(msgs) <= MIN_MESSAGES_TO_KEEP
            THEN [ret |-> FALSE, messages |-> msgs]
       ELSE IF removableStart >= removableEnd THEN [ret |-> FALSE, messages |-> msgs]
       ELSE IF removeToIdx - removableStart > 0
            THEN [ret |-> TRUE, messages |-> cleanupOrphanedToolMessagesGlobal(spliced)]
            ELSE [ret |-> FALSE, messages |-> msgs]

----------------------------------------------------------------------------
(* Transcripts fed to the operations *)

TextBlock(n) == [type |-> "text", id |-> 0, len |-> n]
ToolUseBlock(id) == [type |-> "tool_use", id |-> id, len |-> 0]
ToolResultBlock(id) == [type |-> "tool_result", id |-> id, len |-> ShortText]

StrMsg(role, n) == [role |-> role, isArray |-> FALSE, str |-> n, content |-> <<>>]
ArrMsg(role, blocks) == [role |-> role, isArray |-> TRUE, str |-> 0, content |-> blocks]

UserText == StrMsg("user", ShortText)
AsstText == StrMsg("assistant", LongText)
AsstToolUse == ArrMsg("assistant", <<ToolUseBlock(1)>>)
UserResult == ArrMsg("user", <<ToolResultBlock(1)>>)
UserMixed == ArrMsg("user", <<ToolResultBlock(1), TextBlock(ShortText)>>)
UserEmpty == ArrMsg("user", <<>>)
UserResult2 == ArrMsg("user", <<ToolResultBlock(2)>>)
AsstMixed == ArrMsg("assistant", <<TextBlock(LongText), ToolUseBlock(2)>>)

Shapes == {UserText, AsstText, AsstToolUse, UserResult, UserMixed}
ToolShapes == {UserText, AsstToolUse, UserResult}
AllShapes == Shapes \cup {UserEmpty, UserResult2, AsstMixed}

Overages == {0, 1} \cup {k * OverageStep : k \in 1..MaxOverage}

----------------------------------------------------------------------------
(* Streaming converter: ConverterState, processChunk and what it calls *)

NoEntry == [set |-> FALSE, id |-> "", name |-> "", arguments |-> <<>>]

\* the tool call indices a stream uses
ToolIndices == {0, 1}

createConverterState ==
    [toolCallsTracker |-> [i \in ToolIndices |-> NoEntry],
     metricsData |->
        [model |-> "", stop_reason |-> "null",
         input_tokens |-> 0, cache_creation_input_tokens |-> 0,
         cache_read_input_tokens |-> 0, output_tokens |-> 0,
         messageId |-> "null", openAIId |-> "null",
         inThinking |-> FALSE, hadThinking |-> FALSE, answerStarted |-> FALSE,
         needsBullet |-> TRUE]]

(* A string is a sequence of characters; "x" and "y" stand for characters that
   are not whitespace.  The markers are single characters of the model. *)

THINKING_OPEN == <<"OPEN", "\n", "\n">>                 \* '🧠💭\n\n'
THINKING_CLOSE == <<"\n", "\n", "CLOSE", "\n", "\n", "-", "-", "-", "\n", "\n">>
ANSWER_MARKER == <<"MARK", " ">>                        \* '👉🏼 '

\* text[i].trim() is the empty string
IsWhitespace(c) == c \in {" ", "\n"}

\* a.startsWith(b)
StartsWith(a, b) == Len(b) <= Len(a) /\ SubSeq(a, 1, Len(b)) = b

\* a.substring(n)
Substring(a, n) == SubSeq(a, n + 1, Len(a))

(* One line of a chunk: line = "skip" for an empty line, an `event:` line or a
   line that is not a `data: {` line, "malformed" for a `data: {` line that
   JSON.parse rejects, "data" for a parsed event with the members below
   (index -1, an empty string and present = FALSE stand for an absent or
   falsy member). *)

NoUsage ==
    [present |-> FALSE, input_tokens |-> 0, output_tokens |-> 0,
     cache_creation_input_tokens |-> 0, cache_read_input_tokens |-> 0]

Usage(inp, out, cc, cr) ==
    [NoUsage EXCEPT !.present = TRUE, !.input_tokens = inp, !.output_tokens = out,
                    !.cache_creation_input_tokens = cc,
                    !.cache_read_input_tokens = cr]

SkipLine ==
    [line |-> "skip", type |-> "", index |-> -1, block |-> "",
     text |-> <<>>, thinking |-> <<>>, partial_json |-> <<>>,
     stop_reason |-> "", usage |-> NoUsage,
     message |-> FALSE, messageUsage |-> NoUsage]

MalformedLine == [SkipLine EXCEPT !.line = "malformed"]
Data(type) == [SkipLine EXCEPT !.line = "data", !.type = type]
Ping == Data("ping")
MessageStart(u) == [Data("message_start") EXCEPT !.message = TRUE, !.messageUsage = u]
BlockStart(i, b) == [Data("content_block_start") EXCEPT !.index = i, !.block = b]
ArgsDelta(i, f) == [Data("content_block_delta") EXCEPT !.index = i, !.partial_json = f]
ThinkingDelta(f) == [Data("content_block_delta") EXCEPT !.thinking = f]
TextDelta(f) == [Data("content_block_delta") EXCEPT !.text = f]
BlockStop == Data("content_block_stop")
MessageDelta(r, u) == [Data("message_delta") EXCEPT !.stop_reason = r, !.usage = u]
MessageStop == Data("message_stop")

(* One ProcessResult: type "ping" | "done" | "chunk"; for a chunk, delta names
   the members of choices[0].delta: "role" {role, content: ''}, "tool_start",
   "tool_args", "content", "empty" {}. *)

NoUsageOut ==
    [present |-> FALSE, prompt_tokens |-> 0, completion_tokens |-> 0,
     total_tokens |-> 0]

Result(type, delta) ==
    [type |-> type, delta |-> delta, content |-> <<>>, index |-> -1,
     arguments |-> <<>>, finish_reason |-> "null", usage |-> NoUsageOut]

PingResult == Result("ping", "")
DoneResult == Result("done", "")
ContentChunk(c) == [Result("chunk", "content") EXCEPT !.content = c]

----------------------------------------------------------------------------
(* updateMetrics, createUsageChunk *)

AddUsage(md, u) ==
    [md EXCEPT !.input_tokens = @ + u.input_tokens,
               !.output_tokens = @ + u.output_tokens,
               !.cache_creation_input_tokens = @ + u.cache_creation_input_tokens,
               !.cache_read_input_tokens = @ + u.cache_read_input_tokens]

updateMetrics(md, data) ==
    LET m1 == IF data.type = "message_start" /\ data.message
              THEN [md EXCEPT !.messageId = "msg_1", !.model = "claude"]
              ELSE md
        m2 == IF data.type = "message_delta" /\ data.stop_reason /= ""
              THEN [m1 EXCEPT !.stop_reason = data.stop_reason]
              ELSE m1
        m3 == IF data.usage.present THEN AddUsage(m2, data.usage) ELSE m2
    IN IF data.message /\ data.messageUsage.present
       THEN AddUsage(m3, data.messageUsage)
       ELSE m3

createUsageChunkAlways(st) ==
    <<[Result("chunk", "empty") EXCEPT !.usage =
        [present |-> TRUE,
         prompt_tokens |-> st.metricsData.input_tokens,
         completion_tokens |-> st.metricsData.output_tokens,
         total_tokens |-> st.metricsData.input_tokens
                            + st.metricsData.output_tokens]]>>

\* the usage chunk, << >> for null
createUsageChunk(st) ==
    IF st.metricsData.input_tokens = 0 /\ st.metricsData.output_tokens = 0
    THEN <<>>
    ELSE <<[Result("chunk", "empty") EXCEPT !.usage =
            [present |-> TRUE,
             prompt_tokens |-> st.metricsData.input_tokens,
             completion_tokens |-> st.metricsData.output_tokens,
             total_tokens |-> st.metricsData.input_tokens
                                + st.metricsData.output_tokens]]>>

----------------------------------------------------------------------------
(* transformToOpenAI: each branch gives [state, chunk], chunk << >> for null *)

\* data.index ?? 0
IndexOf(data) == IF data.index < 0 THEN 0 ELSE data.index

OnMessageStart(st, data) ==
    [state |-> [st EXCEPT !.metricsData.openAIId = "chatcmpl-1"],
     chunk |-> <<Result("chunk", "role")>>]

OnToolStartKeepsArguments(st, data) ==
    [state |-> [st EXCEPT !.toolCallsTracker[IndexOf(data)] =
                    [set |-> TRUE, id |-> "toolu", name |-> "f",
                     arguments |-> @.arguments]],
     chunk |-> <<[Result("chunk", "tool_start") EXCEPT !.index = IndexOf(data)]>>]

\* state.toolCallsTracker.set(data.index ?? 0, {id, name, arguments: ''})
OnToolStart(st, data) ==
    [state |-> [st EXCEPT !.toolCallsTracker[IndexOf(data)] =
                    [set |-> TRUE, id |-> "toolu", name |-> "f",
                     arguments |-> <<>>]],
     chunk |-> <<[Result("chunk", "tool_start") EXCEPT !.index = IndexOf(data)]>>]

AccumulateArgumentsAppendAll(arguments, partial_json) ==
    IF arguments /= <<>> /\ StartsWith(partial_json, arguments)
    THEN [newPart |-> Substring(partial_json, Len(arguments)),
          arguments |-> arguments \o partial_json]
    ELSE [newPart |-> partial_json, arguments |-> arguments \o partial_json]

\* the accumulated / fragment decision for one partial_json
AccumulateArguments(arguments, partial_json) ==
    IF arguments /= <<>> /\ StartsWith(partial_json, arguments)
    THEN [newPart |-> Substring(partial_json, Len(arguments)),
          arguments |-> partial_json]
    ELSE [newPart |-> partial_json, arguments |-> arguments \o partial_json]

OnArgsDeltaAutoRegister(st, data) ==
    [state |-> [st EXCEPT !.toolCallsTracker[IndexOf(data)] =
                    [set |-> TRUE, id |-> "", name |-> "",
                     arguments |-> @.arguments \o data.partial_json]],
     chunk |-> IF st.toolCallsTracker[IndexOf(data)].set
               THEN <<[Result("chunk", "tool_args") EXCEPT
                         !.index = IndexOf(data),
                         !.arguments = AccumulateArguments(
                             st.toolCallsTracker[IndexOf(data)].arguments,
                             data.partial_json).newPart]>>
               ELSE <<>>]

OnArgsDelta(st, data) ==
    LET toolCall == st.toolCallsTracker[IndexOf(data)]
        acc == AccumulateArguments(toolCall.arguments, data.partial_json)
    IN IF toolCall.set
       THEN [state |-> [st EXCEPT !.toolCallsTracker[IndexOf(data)].arguments =
                            acc.arguments],
             chunk |-> <<[Result("chunk", "tool_args") EXCEPT
                            !.index = IndexOf(data),
                            !.arguments = acc.newPart]>>]
       ELSE [state |-> st, chunk |-> <<>>]

RECURSIVE ThinkingLoop(_, _, _, _)
\* for (i = 0; i < text.length; i++) of the thinking branch
ThinkingLoop(text, i, needsBullet, processed) ==
    IF i >= Len(text) THEN [needsBullet |-> needsBullet, processed |-> processed]
    ELSE IF At(text, i) = "\n"
         THEN IF ~needsBullet
              THEN ThinkingLoop(text, i + 1, TRUE, Append(processed, "*"))
              ELSE ThinkingLoop(text, i + 1, needsBullet, processed)
         ELSE IF needsBullet /\ ~IsWhitespace(At(text, i))
              THEN ThinkingLoop(text, i + 1, FALSE,
                        processed \o <<"\n", "\n", "*", At(text, i)>>)
              ELSE ThinkingLoop(text, i + 1, needsBullet,
                        Append(processed, At(text, i)))

OnThinkingDelta(st, data) ==
    LET md == st.metricsData
        opening == ~md.inThinking
        loop == ThinkingLoop(data.thinking, 0,
                             IF opening THEN TRUE ELSE md.needsBullet, <<>>)
        content == (IF opening THEN THINKING_OPEN ELSE <<>>) \o loop.processed
    IN [state |-> [st EXCEPT !.metricsData =
                    [md EXCEPT !.inThinking = TRUE,
                               !.hadThinking = IF opening THEN TRUE ELSE @,
                               !.answerStarted = IF opening THEN FALSE ELSE @,
                               !.needsBullet = loop.needsBullet]],
        chunk |-> IF content /= <<>> THEN <<ContentChunk(content)>> ELSE <<>>]

AnswerPrefixEveryDelta(md) == md.hadThinking

\* hadThinking && !answerStarted
AnswerPrefix(md) == md.hadThinking /\ ~md.answerStarted

OnTextDelta(st, data) ==
    IF AnswerPrefix(st.metricsData)
    THEN [state |-> [st EXCEPT !.metricsData.answerStarted = TRUE],
          chunk |-> <<ContentChunk(ANSWER_MARKER \o data.text)>>]
    ELSE [state |-> st, chunk |-> <<ContentChunk(data.text)>>]

StreamFinishReasonRaw(stop_reason) == stop_reason

\* finish_reason of the finish chunk
StreamFinishReason(stop_reason) ==
    IF stop_reason = "end_turn" THEN "stop"
    ELSE IF stop_reason = "tool_use" THEN "tool_calls"
    ELSE stop_reason

OnMessageDelta(st, data) ==
    [state |-> st,
     chunk |-> <<[Result("chunk", "empty") EXCEPT
                    !.finish_reason = StreamFinishReason(data.stop_reason)]>>]

transformToOpenAI(st, data) ==
    IF data.type = "message_start" /\ data.message
        THEN OnMessageStart(st, data)
    ELSE IF data.type = "content_block_start" /\ data.block = "tool_use"
        THEN OnToolStart(st, data)
    ELSE IF data.type = "content_block_delta" /\ data.partial_json /= <<>>
        THEN OnArgsDelta(st, data)
    ELSE IF data.type = "content_block_delta" /\ data.thinking /= <<>>
        THEN OnThinkingDelta(st, data)
    ELSE IF data.type = "content_block_delta" /\ data.text /= <<>>
        THEN OnTextDelta(st, data)
    ELSE IF data.type = "message_delta" /\ data.stop_reason /= ""
        THEN OnMessageDelta(st, data)
    ELSE [state |-> st, chunk |-> <<>>]

----------------------------------------------------------------------------
(* processChunk: acc is [state, results] *)

CloseItalicAlways(needsBullet) == <<"*">>

\* closeItalic = needsBullet ? '' : '*'
CloseItalic(needsBullet) == IF needsBullet THEN <<>> ELSE <<"*">>

CloseThinkingKeepsFlag(acc) ==
    [acc EXCEPT !.results = Append(@, ContentChunk(THINKING_CLOSE))]

\* inThinking = false; push the closing chunk
CloseThinking(acc) ==
    [state |-> [acc.state EXCEPT !.metricsData.inThinking = FALSE],
     results |-> Append(acc.results,
        ContentChunk(CloseItalic(acc.state.metricsData.needsBullet)
                        \o THINKING_CLOSE))]

OnMessageStopUsageFirst(acc) ==
    LET usage == [acc EXCEPT !.results = @ \o createUsageChunk(acc.state)]
        closed == IF acc.state.metricsData.inThinking
                  THEN CloseThinking(usage) ELSE usage
    IN [closed EXCEPT !.results = Append(@, DoneResult)]

\* the two `if (data.type === 'message_stop')` blocks
OnMessageStop(acc) ==
    LET closed == IF acc.state.metricsData.inThinking
                  THEN CloseThinking(acc) ELSE acc
    IN [closed EXCEPT !.results = (@ \o createUsageChunk(closed.state))
                                    \o <<DoneResult>>]

OnParseErrorResets(acc) == [acc EXCEPT !.state = createConverterState]

\* catch (parseError) { }
OnParseError(acc) == acc

\* the try block for the parsed event `data`
OnData(acc, data) ==
    IF data.type = "ping" THEN [acc EXCEPT !.results = Append(@, PingResult)]
    ELSE IF data.type = "content_block_stop"
        THEN IF acc.state.metricsData.inThinking THEN CloseThinking(acc) ELSE acc
    ELSE IF data.type = "content_block_start" /\ data.block \in {"text", "thinking"}
        THEN acc
    ELSE LET st1 == [acc.state EXCEPT !.metricsData = updateMetrics(@, data)]
             t == transformToOpenAI(st1, data)
             acc1 == [state |-> t.state, results |-> acc.results \o t.chunk]
         IN IF data.type = "message_stop" THEN OnMessageStop(acc1) ELSE acc1

\* one iteration of for (const line of lines)
processLine(acc, line) ==
    IF line.line = "skip" THEN acc
    ELSE IF line.line = "malformed" THEN OnParseError(acc)
    ELSE OnData(acc, line)

RECURSIVE processLines(_, _, _)
processLines(acc, lines, k) ==
    IF k > Len(lines) THEN acc
    ELSE processLines(processLine(acc, lines[k]), lines, k + 1)

\* processChunk(state, chunk): the state it leaves and the results it returns
processChunk(st, lines) ==
    processLines([state |-> st, results |-> <<>>], lines, 1)

\* no stream has started
StreamIdle ==
    /\ state = createConverterState
    /\ chunk = <<>>
    /\ results = <<>>
    /\ written = <<>>
    /\ fed = <<>>

----------------------------------------------------------------------------
(* convertNonStreamingResponse.  The upstream response is
   [stop_reason, usage, content]: stop_reason "" when null or absent, content
   the block array; a block is [type, text], text the thinking of a thinking
   block.  The result is [finish_reason, contentNull, content, tool_calls,
   usage], finish_reason "null" for null, tool_calls the number of entries. *)

Block(type, text) == [type |-> type, text |-> text]

NonStreamFinishReasonStopOnly(stop_reason) ==
    IF stop_reason = "end_turn" THEN "stop"
    ELSE IF stop_reason = "" THEN "null" ELSE stop_reason

\* finish_reason of choices[0]
NonStreamFinishReason(stop_reason) ==
    IF stop_reason = "end_turn" THEN "stop"
    ELSE IF stop_reason = "tool_use" THEN "tool_calls"
    ELSE IF stop_reason = "" THEN "null" ELSE stop_reason

RECURSIVE SplitNewlines(_, _, _, _, _)
\* text.split(/\n+/): cur is the piece being read, inRun says the last
\* character was a newline
SplitNewlines(text, k, cur, inRun, acc) ==
    IF k > Len(text) THEN Append(acc, cur)
    ELSE IF text[k] = "\n"
         THEN IF inRun THEN SplitNewlines(text, k + 1, cur, TRUE, acc)
              ELSE SplitNewlines(text, k + 1, <<>>, TRUE, Append(acc, cur))
         ELSE SplitNewlines(text, k + 1, Append(cur, text[k]), FALSE, acc)

RECURSIVE Trim(_)
\* t.trim()
Trim(t) ==
    IF t = <<>> THEN t
    ELSE IF IsWhitespace(t[1]) THEN Trim(Tail(t))
    ELSE IF IsWhitespace(t[Len(t)]) THEN Trim(SubSeq(t, 1, Len(t) - 1))
    ELSE t

RECURSIVE JoinEmphasised(_, _)
\* .map(t => `*${t}*`).join('\n\n') of the non-empty trimmed lines[k..]
JoinEmphasised(lines, k) ==
    IF k > Len(lines) THEN <<>>
    ELSE (<<"*">> \o lines[k] \o <<"*">>)
            \o (IF k < Len(lines) THEN <<"\n", "\n">> ELSE <<>>)
            \o JoinEmphasised(lines, k + 1)

NonStreamThinkingOneSpan(thinking) ==
    THINKING_OPEN \o <<"*">> \o Trim(thinking) \o <<"*">> \o THINKING_CLOSE
        \o ANSWER_MARKER

\* what a thinking block adds to textContent
NonStreamThinking(thinking) ==
    LET pieces == SplitNewlines(thinking, 1, <<>>, FALSE, <<>>)
        trimmed == [k \in 1..Len(pieces) |-> Trim(pieces[k])]
        lines == SelectSeq(trimmed, LAMBDA t : Len(t) > 0)
    IN THINKING_OPEN \o JoinEmphasised(lines, 1) \o THINKING_CLOSE
            \o ANSWER_MARKER

RECURSIVE ContentLoop(_, _, _)
\* for (const block of anthropicResponse.content || []): acc is
\* [textContent, tool_calls]
ContentLoop(content, k, acc) ==
    IF k > Len(content) THEN acc
    ELSE IF content[k].type = "thinking" /\ content[k].text /= <<>>
         THEN ContentLoop(content, k + 1,
                [acc EXCEPT !.textContent = @ \o NonStreamThinking(content[k].text)])
    ELSE IF content[k].type = "text"
         THEN ContentLoop(content, k + 1,
                [acc EXCEPT !.textContent = @ \o content[k].text])
    ELSE IF content[k].type = "tool_use"
         THEN ContentLoop(content, k + 1, [acc EXCEPT !.tool_calls = @ + 1])
    ELSE ContentLoop(content, k + 1, acc)

HasTextAlways(textContent) == TRUE

\* if (textContent)
HasText(textContent) == textContent /= <<>>

convertNonStreamingResponse(resp) ==
    LET acc == ContentLoop(resp.content, 1, [textContent |-> <<>>, tool_calls |-> 0])
    IN [finish_reason |-> NonStreamFinishReason(resp.stop_reason),
        contentNull |-> ~HasText(acc.textContent),
        content |-> acc.textContent,
        tool_calls |-> acc.tool_calls,
        usage |-> [present |-> TRUE,
                   prompt_tokens |-> resp.usage.input_tokens,
                   completion_tokens |-> resp.usage.output_tokens,
                   total_tokens |-> resp.usage.input_tokens
                                        + resp.usage.output_tokens]]

\* no non-streaming response has arrived
NoResponse ==
    [pc |-> "idle",
     in |-> [stop_reason |-> "", usage |-> NoUsage, content |-> <<>>],
     out |-> [finish_reason |-> "null", contentNull |-> TRUE, content |-> <<>>,
              tool_calls |-> 0, usage |-> NoUsageOut]]

\* the streaming connections served at the same time
Connections == {1, 2}

\* a connection whose handler has not created its ConverterState yet
NoCleanup == [passes |-> 0, changed |-> FALSE]

NoUpstream == [lines |-> <<>>, inside |-> FALSE]

NoConnection ==
    [converterState |-> 0, chunks |-> <<>>, results |-> <<>>, written |-> <<>>]

\* messagesFn has not been entered
ServerIdle ==
    [pc |-> "idle", status |-> 0, sent |-> <<>>,
     fetches |-> 0,         \* calls of fetch so far
     upstream |-> 0,        \* response.status, 0 before the response
     kind |-> "",           \* which response was returned to the client
     lock |-> "none",       \* the reader's lock: "none" | "held" | "released"
     releases |-> 0,        \* calls of reader.releaseLock() so far
     reads |-> 0,           \* calls of reader.read() so far
     writes |-> 0,          \* calls of stream.write() so far
     units |-> <<>>,        \* what the loop body writes for the chunk read last
     i |-> 0,               \* units of it whose write has completed
     produced |-> <<>>,     \* every unit so far, in order
     out |-> <<>>,          \* every unit whose write has completed, in order
     failed |-> FALSE]      \* the catch block of the stream has run

----------------------------------------------------------------------------
(* State machine *)

Init ==
    /\ messages = <<>>
    /\ hasMessages \in BOOLEAN
    /\ system \in {-1, SysLen}
    /\ tools = -1
    /\ tokenLimit = 0
    /\ pc = "build"
    /\ ret = FALSE
    /\ orig = <<>>
    /\ rounds = <<>>
    /\ roundsToRemove = <<>>
    /\ issues = <<>>
    /\ srv = ServerIdle
    /\ StreamIdle
    /\ response = NoResponse
    /\ heap = <<>>
    /\ connections = [c \in Connections |-> NoConnection]
    /\ estimate = -1
    /\ cleanup = NoCleanup
    /\ upstream = NoUpstream

Append1(m, maxLen) ==
    /\ pc = "build"
    /\ hasMessages
    /\ Len(messages) < maxLen
    /\ messages' = Append(messages, m)
    /\ UNCHANGED <<hasMessages, system, tools, tokenLimit, pc, ret, orig, rounds,
                   roundsToRemove, issues, srv, streamVars, response,
                   connVars, estimate, cleanup, upstream>>

\* the client extends the transcript of the request body
AddMessage == \E m \in Shapes : Append1(m, MaxLen)

\* the same, for a long tool-call conversation
AddToolMessage == \E m \in ToolShapes : Append1(m, MaxToolLen)

\* the same, over every message shape
AddAnyMessage == \E m \in AllShapes : Append1(m, MaxLen)

\* one call truncateIfNeeded(body, tokenLimit)
Truncate ==
    /\ pc = "build"
    /\ \E total \in {estimateTokens(system, tools, hasMessages, messages)} :
       \E ov \in Overages :
       \E res \in {truncateIfNeeded(system, tools, hasMessages, messages, total - ov)} :
            /\ tokenLimit' = total - ov
            /\ messages' = res.messages
            /\ ret' = res.ret
            /\ rounds' = res.rounds
            /\ roundsToRemove' = res.roundsToRemove
            /\ issues' = res.issues
    /\ orig' = messages
    /\ pc' = "done"
    /\ UNCHANGED <<hasMessages, system, tools, srv, streamVars, response,
                   connVars, estimate, cleanup, upstream>>

\* one call groupIntoRounds(messages)
Group ==
    /\ pc = "build"
    /\ hasMessages
    /\ rounds' = groupIntoRounds(messages)
    /\ orig' = messages
    /\ pc' = "grouped"
    /\ UNCHANGED <<messages, hasMessages, system, tools, tokenLimit, ret,
                   roundsToRemove, issues, srv, streamVars, response,
                   connVars, estimate, cleanup, upstream>>

Next == AddMessage \/ Truncate

Spec == Init /\ [][Next]_vars

\* a request without a system prompt
InitTools == Init /\ hasMessages /\ system = -1

NextTools == AddToolMessage \/ Truncate

SpecTools == InitTools /\ [][NextTools]_vars

ImageBlock(n) == [type |-> "image", id |-> 0, len |-> n]

Payloads == {SmallPayload, LargePayload}

ImageShapes ==
    {UserText, AsstText}
        \cup {ArrMsg("user", <<ImageBlock(n)>>) : n \in Payloads}
        \cup {ArrMsg("user", <<TextBlock(ShortText), ImageBlock(n), ImageBlock(SmallPayload)>>) :
                    n \in Payloads}

\* the client extends the transcript with text and image messages
AddImageMessage == \E m \in ImageShapes : Append1(m, MaxLen)

\* one call estimateTokens(body)
Estimate ==
    /\ pc = "build"
    /\ estimate' = estimateTokens(system, tools, hasMessages, messages)
    /\ orig' = messages
    /\ pc' = "estimated"
    /\ UNCHANGED <<messages, hasMessages, system, tools, tokenLimit, ret, rounds,
                   roundsToRemove, issues, srv, streamVars, response, connVars,
                   cleanup, upstream>>

NextImages == AddImageMessage \/ Estimate

SpecImages == Init /\ [][NextImages]_vars

\* one call validateMessages(messages)
Validate ==
    /\ pc = "build"
    /\ hasMessages
    /\ issues' = validateMessages(messages)
    /\ orig' = messages
    /\ pc' = "validated"
    /\ UNCHANGED <<messages, hasMessages, system, tools, tokenLimit, ret, rounds,
                   roundsToRemove, srv, streamVars, response, connVars, estimate, cleanup, upstream>>

NextValidate == AddAnyMessage \/ Validate

SpecValidate == InitTools /\ [][NextValidate]_vars

MiddleShapes == {UserText, AsstText, AsstToolUse, UserResult}

\* the client extends a transcript long enough to have a removable middle
AddMiddleMessage == \E m \in MiddleShapes : Append1(m, MaxMiddleLen)

\* one call truncateIfNeeded(body, tokenLimit) of the middle-removal version
TruncateMiddle ==
    /\ pc = "build"
    /\ \E total \in {estimateTokens(system, tools, hasMessages, messages)} :
       \E ov \in Overages :
       \E res \in {truncateIfNeededMiddle(system, tools, hasMessages, messages,
                                          total - ov)} :
            /\ tokenLimit' = total - ov
            /\ messages' = res.messages
            /\ ret' = res.ret
    /\ orig' = messages
    /\ pc' = "truncated"
    /\ UNCHANGED <<hasMessages, system, tools, rounds, roundsToRemove, issues, srv,
                   streamVars, response, connVars, estimate, cleanup, upstream>>

NextMiddle == AddMiddleMessage \/ TruncateMiddle

SpecMiddle == InitTools /\ [][NextMiddle]_vars

\* one call cleanupOrphanedToolMessages(messages) of the multi-pass version
Cleanup ==
    /\ pc = "build"
    /\ hasMessages
    /\ \E res \in {CleanupLoop(messages, 0)} :
            /\ messages' = res.messages
            /\ cleanup' = [passes |-> res.passes, changed |-> res.changed]
    /\ orig' = messages
    /\ pc' = "cleaned"
    /\ UNCHANGED <<hasMessages, system, tools, tokenLimit, ret, rounds,
                   roundsToRemove, issues, srv, streamVars, response, connVars,
                   estimate, upstream>>

NextCleanup == AddAnyMessage \/ Cleanup

SpecCleanup == InitTools /\ [][NextCleanup]_vars

\* the client opens the conversation with text messages
AddOpeningMessage == \E m \in {UserText, AsstText} : Append1(m, MaxOpeningLen)

\* the client extends it with one tool round: a tool call and its result
AddToolRound ==
    /\ pc = "build"
    /\ hasMessages
    /\ Len(messages) + 2 <= MaxCascadeLen
    /\ messages' = messages \o <<AsstToolUse, UserResult>>
    /\ UNCHANGED <<hasMessages, system, tools, tokenLimit, pc, ret, orig, rounds,
                   roundsToRemove, issues, srv, streamVars, response,
                   connVars, estimate, cleanup, upstream>>

NextCascade == AddOpeningMessage \/ AddToolRound \/ Cleanup

SpecCascade == InitTools /\ [][NextCascade]_vars

\* the client extends a transcript with a removable middle of one message
AddGlobalMessage == \E m \in MiddleShapes : Append1(m, MaxGlobalLen)

\* one call truncateIfNeeded(body, tokenLimit) of the version with the
\* single-pass cleanup
TruncateGlobal ==
    /\ pc = "build"
    /\ \E total \in {estimateTokens(system, tools, hasMessages, messages)} :
       \E ov \in Overages :
       \E res \in {truncateIfNeededGlobal(system, tools, hasMessages, messages,
                                          total - ov)} :
            /\ tokenLimit' = total - ov
            /\ messages' = res.messages
            /\ ret' = res.ret
    /\ orig' = messages
    /\ pc' = "truncatedGlobal"
    /\ UNCHANGED <<hasMessages, system, tools, rounds, roundsToRemove, issues, srv,
                   streamVars, response, connVars, estimate, cleanup, upstream>>

NextGlobal == AddGlobalMessage \/ TruncateGlobal

SpecGlobal == InitTools /\ [][NextGlobal]_vars

\* text messages of two lengths
ExactShapes == {StrMsg(role, n) : role \in {"user", "assistant"}, n \in {1, ShortText}}

\* the client extends the transcript with text messages
AddExactMessage == \E m \in ExactShapes : Append1(m, MaxLen)

\* one call truncateIfNeeded(body, tokenLimit) with the limit any number of
\* tokens below the estimate
TruncateExact ==
    /\ pc = "build"
    /\ \E total \in {estimateTokens(system, tools, hasMessages, messages)} :
       \E ov \in 1..MaxExactOverage :
       \E res \in {truncateIfNeeded(system, tools, hasMessages, messages, total - ov)} :
            /\ tokenLimit' = total - ov
            /\ messages' = res.messages
            /\ ret' = res.ret
            /\ rounds' = res.rounds
            /\ roundsToRemove' = res.roundsToRemove
            /\ issues' = res.issues
    /\ orig' = messages
    /\ pc' = "done"
    /\ UNCHANGED <<hasMessages, system, tools, srv, streamVars, response,
                   connVars, estimate, cleanup, upstream>>

NextExact == AddExactMessage \/ TruncateExact

SpecExact == InitTools /\ [][NextExact]_vars

NextRounds == AddAnyMessage \/ Group

SpecRounds == Init /\ [][NextRounds]_vars

----------------------------------------------------------------------------
(* messagesFn of the server, from the request to the upstream fetch *)

\* "You are Claude Code, Anthropic's official CLI for Claude."
CLAUDE_CODE_PROMPT_LEN == 57

\* body.system = [{type: 'text', text: <the prompt>}], as the length of the
\* string whose JSON is as long as this array's
ClaudeCodeSystem == 23 + StrJson(CLAUDE_CODE_PROMPT_LEN)

\* an OpenAI tool message {role: 'tool', tool_call_id, content}
ToolRoleMsg(id) ==
    [role |-> "tool", isArray |-> FALSE, str |-> ShortText, content |-> <<>>,
     tool_call_id |-> id]

convertMessage(msg) ==
    IF msg.role = "tool"
    THEN ArrMsg("user", <<[type |-> "tool_result", id |-> msg.tool_call_id,
                           len |-> msg.str]>>)
    ELSE msg

convertMessages(msgs) == [k \in 1..Len(msgs) |-> convertMessage(msgs[k])]

RequestShapes == {UserText, AsstText, AsstToolUse, ToolRoleMsg(1)}

\* a request as a client other than Claude Code sends it: no system prompt
InitServer == Init /\ system = -1

\* the client extends the transcript of the request body
AddRequestMessage == \E m \in RequestShapes : Append1(m, MaxLen)

\* messagesFn up to `await getAccessToken()`
messagesFnPrepare ==
    /\ pc = "build"
    /\ srv.pc = "idle"
    /\ pc' = "done"
    /\ \E keyOk \in BOOLEAN, cursorCheck \in BOOLEAN :
         IF ~keyOk
         THEN /\ srv' = [srv EXCEPT !.pc = "responded", !.status = 401]
              /\ UNCHANGED <<messages, system, tokenLimit, orig>>
         ELSE IF cursorCheck
         THEN /\ srv' = [srv EXCEPT !.pc = "responded", !.status = 200]
              /\ UNCHANGED <<messages, system, tokenLimit, orig>>
         ELSE /\ srv' = [srv EXCEPT !.pc = "token"]
              /\ messages' = IF hasMessages THEN convertMessages(messages)
                             ELSE messages
              /\ system' = IF hasMessages THEN ClaudeCodeSystem ELSE system
              /\ orig' = messages'
              /\ \E ov \in Overages :
                    tokenLimit' =
                        estimateTokens(system', tools, hasMessages, messages') - ov
    /\ UNCHANGED <<hasMessages, tools, ret, rounds, roundsToRemove, issues,
                   streamVars, response, connVars, estimate, cleanup, upstream>>

\* messagesFn from `await getAccessToken()` to `await fetch(...)`
messagesFnForward ==
    /\ srv.pc = "token"
    /\ \E oauthToken \in BOOLEAN :
         IF ~oauthToken
         THEN srv' = [srv EXCEPT !.pc = "responded", !.status = 401]
         ELSE srv' = [srv EXCEPT !.pc = "forwarded", !.sent = messages,
                                 !.fetches = @ + 1]
    /\ UNCHANGED <<truncVars, streamVars, response, connVars, estimate, cleanup, upstream>>

NextServer == AddRequestMessage \/ messagesFnPrepare \/ messagesFnForward

SpecServer == InitServer /\ [][NextServer]_vars

----------------------------------------------------------------------------
(* messagesFn of the server, from the upstream response on.  An awaited call
   either completes or throws; each await is a step of its own. *)

\* with no system prompt in the request the flag is set when body.messages is
transformToOpenAIFormat == hasMessages

Responded(status, kind) == [srv EXCEPT !.pc = "responded", !.status = status, !.kind = kind]

\* catch (error) { return c.json({error: 'Proxy error', ...}, 500) }
ProxyError == Responded(500, "proxy error")

NonOkResponseAllAuth(status, textRead) ==
    IF ~textRead THEN ProxyError
    ELSE Responded(401, "authentication failed")

\* if (!response.ok) { const error = await response.text(); ... }
NonOkResponse(status, textRead) ==
    IF ~textRead THEN ProxyError
    ELSE IF status = 401 THEN Responded(401, "authentication failed")
    ELSE Responded(status, "upstream error")

UpstreamStatuses == {200, 401, 429, 500}

\* response.ok
Ok(status) == status \in 200..299

\* `await fetch(...)` returns or throws, and messagesFn goes on to the point
\* where it returns its Response; bodyRead says whether the awaited
\* response.text() / response.json() completes
messagesFnResponse ==
    /\ srv.pc = "forwarded"
    /\ \E fetched \in BOOLEAN, status \in UpstreamStatuses, bodyRead \in BOOLEAN,
          isStreaming \in BOOLEAN :
         srv' = [(IF ~fetched THEN ProxyError
                  ELSE IF ~Ok(status) THEN NonOkResponse(status, bodyRead)
                  ELSE IF isStreaming
                       THEN [srv EXCEPT !.pc = "read", !.status = 200,
                                        !.kind = "stream", !.lock = "held"]
                  ELSE IF ~bodyRead THEN ProxyError
                  ELSE Responded(200, "json"))
                 EXCEPT !.upstream = IF fetched THEN status ELSE 0]
    /\ UNCHANGED <<truncVars, streamVars, response, connVars, estimate, cleanup, upstream>>

(* The streaming loop *)

UpstreamChunks ==
    {<<Ping>>, <<SkipLine>>, <<TextDelta(<<"x">>)>>,
     <<MessageStart(NoUsage), TextDelta(<<"x">>)>>,
     <<ThinkingDelta(<<"x">>), MessageStop>>}

\* the argument of one stream.write call: ': ping', 'data: <chunk>',
\* 'data: [DONE]' for a result, the chunk itself without the transform
Frame(result) == [frame |-> result.type, data |-> <<result>>]
RawFrame(lines) == [frame |-> "raw", data |-> lines]

Frames(rs) == [k \in 1..Len(rs) |-> Frame(rs[k])]

\* catch (error) { console.error('Stream error:', error) }
OnStreamErrorResume(s) == [s EXCEPT !.failed = TRUE, !.pc = "read"]

OnStreamError(s) == [s EXCEPT !.failed = TRUE, !.pc = "finally"]

\* const { done, value } = await reader.read(): the call
streamRead ==
    /\ srv.pc = "read"
    /\ srv' = [srv EXCEPT !.pc = "reading", !.reads = @ + 1]
    /\ UNCHANGED <<truncVars, streamVars, response, connVars, estimate, cleanup, upstream>>

LoopBodyReadAhead(s, units) ==
    [s EXCEPT !.units = units, !.i = 0, !.produced = @ \o units, !.pc = "read"]

\* the loop body up to its first await: the units of the chunk, in order
LoopBody(s, units) ==
    [s EXCEPT !.units = units, !.i = 0, !.produced = @ \o units,
              !.pc = IF units = <<>> THEN "read" ELSE "write"]

\* reader.read() settles: it throws, the stream is done, or there is a chunk
streamReadSettles ==
    /\ srv.pc = "reading"
    /\ \/ /\ srv' = OnStreamError(srv)
          /\ UNCHANGED streamVars
       \/ /\ srv' = [srv EXCEPT !.pc = "finally"]
          /\ UNCHANGED streamVars
       \/ /\ srv.reads < MaxReads
          /\ \E lines \in UpstreamChunks :
                IF transformToOpenAIFormat
                THEN \E r \in {processChunk(state, lines)} :
                        /\ state' = r.state
                        /\ results' = r.results
                        /\ written' = written \o r.results
                        /\ chunk' = lines
                        /\ fed' = fed \o lines
                        /\ srv' = LoopBody(srv, Frames(r.results))
                ELSE /\ srv' = LoopBody(srv, <<RawFrame(lines)>>)
                     /\ UNCHANGED streamVars
    /\ UNCHANGED <<truncVars, response, connVars, estimate, cleanup, upstream>>

\* await stream.write(...): the call
streamWrite ==
    /\ srv.pc = "write"
    /\ srv' = [srv EXCEPT !.pc = "writing", !.writes = @ + 1]
    /\ UNCHANGED <<truncVars, streamVars, response, connVars, estimate, cleanup, upstream>>

\* the write settles: it throws, or the unit is written and the loop goes on
\* to the next unit, or to the next read after the last
streamWriteSettles ==
    /\ srv.pc = "writing"
    /\ \/ srv' = OnStreamError(srv)
       \/ srv' = [srv EXCEPT !.i = @ + 1,
                            !.out = Append(@, srv.units[srv.i + 1]),
                            !.pc = IF srv.i + 1 < Len(srv.units)
                                   THEN "write" ELSE "read"]
    /\ UNCHANGED <<truncVars, streamVars, response, connVars, estimate, cleanup, upstream>>

\* finally { reader.releaseLock() }
streamFinally ==
    /\ srv.pc = "finally"
    /\ srv' = [srv EXCEPT !.pc = "closed", !.lock = "released", !.releases = @ + 1]
    /\ UNCHANGED <<truncVars, streamVars, response, connVars, estimate, cleanup, upstream>>

NextProxy ==
    \/ messagesFnPrepare
    \/ messagesFnForward
    \/ messagesFnResponse
    \/ streamRead
    \/ streamReadSettles
    \/ streamWrite
    \/ streamWriteSettles
    \/ streamFinally

SpecProxy == InitServer /\ [][NextProxy]_vars

----------------------------------------------------------------------------
(* One stream: the server gives each chunk it reads to processChunk *)

\* a stream on a fresh ConverterState
InitStream == Init /\ hasMessages /\ system = -1

\* results = processChunk(state, lines), with at most maxLines lines in all
Feed(lines, maxLines) ==
    /\ Len(fed) + Len(lines) <= maxLines
    /\ \E r \in {processChunk(state, lines)} :
            /\ state' = r.state
            /\ results' = r.results
            /\ written' = written \o r.results
    /\ chunk' = lines
    /\ fed' = fed \o lines
    /\ UNCHANGED <<truncVars, srv, response, connVars, estimate, cleanup, upstream>>

(* Tool calls: starts and argument fragments at two indices *)

ArgFrags == {<<"a">>, <<"b">>, <<"a", "b">>}

ToolUseStart ==
    \E i \in ToolIndices : Feed(<<BlockStart(i, "tool_use")>>, MaxArgLines)

ToolArgsDelta ==
    \E i \in ToolIndices, f \in ArgFrags : Feed(<<ArgsDelta(i, f)>>, MaxArgLines)

\* a content_block_delta whose partial_json is the empty string
EmptyArgsDelta == Feed(<<ArgsDelta(0, <<>>)>>, MaxArgLines)

NextArgs == ToolUseStart \/ ToolArgsDelta \/ EmptyArgsDelta

SpecArgs == InitStream /\ [][NextArgs]_vars

(* Thinking: fragments of one thinking block and its close *)

\* every string of one or two characters over a letter, a space and a newline
ThinkFrags ==
    {<<c>> : c \in {"x", " ", "\n"}}
        \cup {<<c, d>> : c \in {"x", " ", "\n"}, d \in {"x", " ", "\n"}}

ThinkingFragment == \E f \in ThinkFrags : Feed(<<ThinkingDelta(f)>>, MaxThinkLines)

ThinkingBlockStop == Feed(<<BlockStop>>, MaxThinkLines)

ThinkingMessageStop == Feed(<<MessageStop>>, MaxThinkLines)

NextThinking == ThinkingFragment \/ ThinkingBlockStop \/ ThinkingMessageStop

SpecThinking == InitStream /\ [][NextThinking]_vars

(* Thinking blocks interleaved with text blocks *)

AnswerThinkingDelta == Feed(<<ThinkingDelta(<<"x">>)>>, MaxAnswerLines)

AnswerTextDelta ==
    \E f \in {<<"x">>, <<"y">>, <<>>} : Feed(<<TextDelta(f)>>, MaxAnswerLines)

AnswerBlockStop == Feed(<<BlockStop>>, MaxAnswerLines)

NextAnswer == AnswerThinkingDelta \/ AnswerTextDelta \/ AnswerBlockStop

SpecAnswer == InitStream /\ [][NextAnswer]_vars

(* A whole response: start, text and thinking, stop reason, stop; with lines
   that do not parse *)

StreamLines ==
    {MessageStart(NoUsage), MessageStart(Usage(1, 0, 0, 0)),
     TextDelta(<<"x">>), TextDelta(<<"y">>), TextDelta(<<>>),
     ThinkingDelta(<<"x">>), MessageDelta("end_turn", NoUsage), MessageStop}

StreamMessageStart ==
    \E u \in {NoUsage, Usage(1, 0, 0, 0)} :
        Feed(<<MessageStart(u)>>, MaxStreamLines)

StreamTextDelta ==
    \E f \in {<<"x">>, <<"y">>, <<>>} : Feed(<<TextDelta(f)>>, MaxStreamLines)

StreamThinkingDelta == Feed(<<ThinkingDelta(<<"x">>)>>, MaxStreamLines)

StreamMessageDelta == Feed(<<MessageDelta("end_turn", NoUsage)>>, MaxStreamLines)

StreamMessageStop == Feed(<<MessageStop>>, MaxStreamLines)

\* a chunk that is one line that does not parse
StreamMalformed == Feed(<<MalformedLine>>, MaxStreamLines)

\* a chunk of two lines, the first of which does not parse
StreamMalformedThenLine ==
    \E l \in StreamLines : Feed(<<MalformedLine, l>>, MaxStreamLines)

NextStream ==
    \/ StreamMessageStart
    \/ StreamTextDelta
    \/ StreamThinkingDelta
    \/ StreamMessageDelta
    \/ StreamMessageStop
    \/ StreamMalformed
    \/ StreamMalformedThenLine

SpecStream == InitStream /\ [][NextStream]_vars

(* The upstream byte stream cut into network chunks at any byte *)

SplitLines ==
    {MessageStart(Usage(1, 0, 0, 0)), TextDelta(<<"x">>), TextDelta(<<"y">>),
     ThinkingDelta(<<"x">>), BlockStop, MessageStop}

\* the lines chunk.split('\n') makes of the first part of a frame `data: {...}`
\* cut short by the end of the chunk: cut after the '{' it passes the test
\* startsWith('data: ') && includes('{') and JSON.parse throws on the unclosed
\* object; cut before the '{' it fails the test
HeadOfFrame(line, afterBrace) == IF afterBrace THEN MalformedLine ELSE SkipLine

\* the rest of that frame at the start of the next chunk: it does not start
\* with 'data: '
TailOfFrame(line) == SkipLine

\* const chunk = decoder.decode(value, { stream: true });
\* const results = processChunk(converterState, chunk): the chunk starts where
\* the last one ended, holds the whole frames `whole` and ends inside the frame
\* `cut` (<<>> when it ends at the end of a frame)
ReadSplitChunk ==
    \E whole \in {<<>>} \cup {<<l>> : l \in SplitLines}
                         \cup {<<l, m>> : l \in SplitLines, m \in {TextDelta(<<"y">>), MessageStop}} :
    \E cut \in {<<>>} \cup {<<l>> : l \in SplitLines} :
    \E afterBrace \in BOOLEAN :
        /\ pc = "build"
        /\ Len(upstream.lines) + Len(whole) + Len(cut) <= MaxSplitLines
        /\ upstream.inside \/ Len(whole) + Len(cut) > 0
        /\ cut = <<>> => afterBrace
        /\ \E lines \in {(IF upstream.inside
                          THEN <<TailOfFrame(upstream.lines[Len(upstream.lines)])>>
                          ELSE <<>>)
                         \o whole
                         \o (IF cut # <<>> THEN <<HeadOfFrame(cut[1], afterBrace)>>
                             ELSE <<>>)} :
           \E r \in {processChunk(state, lines)} :
                /\ state' = r.state
                /\ results' = r.results
                /\ written' = written \o r.results
                /\ chunk' = lines
                /\ fed' = fed \o lines
        /\ upstream' = [lines |-> upstream.lines \o whole \o cut, inside |-> cut # <<>>]
        /\ UNCHANGED <<truncVars, srv, response, connVars, estimate, cleanup>>

NextSplit == ReadSplitChunk

SpecSplit == InitStream /\ [][NextSplit]_vars

(* Tool calls among thinking, block stops and the message stop *)

\* -1: the event has no index
TrackerToolStart ==
    \E i \in ToolIndices \cup {-1} : Feed(<<BlockStart(i, "tool_use")>>, MaxTrackerLines)

TrackerArgsDelta ==
    \E i \in ToolIndices : Feed(<<ArgsDelta(i, <<"a">>)>>, MaxTrackerLines)

TrackerThinkingDelta == Feed(<<ThinkingDelta(<<"x">>)>>, MaxTrackerLines)

TrackerBlockStop == Feed(<<BlockStop>>, MaxTrackerLines)

TrackerMessageStop == Feed(<<MessageStop>>, MaxTrackerLines)

NextTracker ==
    \/ TrackerToolStart
    \/ TrackerArgsDelta
    \/ TrackerThinkingDelta
    \/ TrackerBlockStop
    \/ TrackerMessageStop

SpecTracker == InitStream /\ [][NextTracker]_vars

(* Stop reasons and usage, streamed and not streamed *)

StopReasons == {"end_turn", "tool_use", "max_tokens", "stop_sequence"}

UsageMessageStart ==
    \E u \in {NoUsage, Usage(1, 0, 0, 0), Usage(0, 0, 1, 0), Usage(0, 0, 0, 1)} :
        Feed(<<MessageStart(u)>>, MaxUsageLines)

UsageMessageDelta ==
    \/ \E r \in StopReasons \cup {""} :
            Feed(<<MessageDelta(r, NoUsage)>>, MaxUsageLines)
    \/ Feed(<<MessageDelta("end_turn", Usage(0, 1, 0, 0))>>, MaxUsageLines)

UsageMessageStop == Feed(<<MessageStop>>, MaxUsageLines)

ResponseContents ==
    {<<>>, <<Block("text", <<"x">>)>>, <<Block("tool_use", <<>>)>>,
     <<Block("thinking", <<"x", "\n", " ", "x">>), Block("text", <<"y">>)>>,
     <<Block("text", <<>>)>>, <<Block("thinking", <<"x">>)>>,
     <<Block("thinking", <<>>), Block("tool_use", <<>>)>>,
     <<Block("tool_use", <<>>), Block("text", <<>>), Block("text", <<"x">>)>>}

\* responseData = await response.json(); convertNonStreamingResponse(responseData)
ConvertResponse ==
    /\ response.pc = "idle"
    /\ \E r \in StopReasons \cup {""}, c \in ResponseContents :
        \E resp \in {[stop_reason |-> r, usage |-> Usage(1, 1, 0, 0), content |-> c]} :
            response' = [pc |-> "converted", in |-> resp,
                         out |-> convertNonStreamingResponse(resp)]
    /\ UNCHANGED <<truncVars, srv, streamVars, connVars, estimate, cleanup, upstream>>

NextUsage ==
    UsageMessageStart \/ UsageMessageDelta \/ UsageMessageStop \/ ConvertResponse

SpecUsage == InitStream /\ [][NextUsage]_vars

(* Two connections streaming at the same time.  heap maps the reference of
   each ConverterState object to its value; a connection holds the reference
   its handler got from createConverterState() and passes it to every
   processChunk call. *)

newConverterStateSingleton(c) == 1

\* the reference of the object that createConverterState() returns to the
\* handler of connection c: a new object at every call
newConverterState(c) == c

\* const converterState = createConverterState()
OpenStream ==
    \E c \in Connections :
        /\ connections[c].converterState = 0
        /\ \E ref \in {newConverterState(c)} :
            /\ heap' = (ref :> createConverterState) @@ heap
            /\ connections' = [connections EXCEPT ![c].converterState = ref]
        /\ UNCHANGED <<truncVars, srv, streamVars, response, estimate, cleanup, upstream>>

ConnLines ==
    {MessageStart(Usage(1, 0, 0, 0)), ThinkingDelta(<<"x">>), TextDelta(<<"x">>),
     BlockStart(0, "tool_use"), ArgsDelta(0, <<"a">>), MessageStop}

ChunksRead == connections[1].chunks \o connections[2].chunks

\* const results = processChunk(converterState, chunk) in one handler
ReadChunk ==
    \E c \in Connections, l \in ConnLines :
        /\ connections[c].converterState /= 0
        /\ Len(ChunksRead) < MaxConnChunks
        /\ \E ref \in {connections[c].converterState} :
           \E r \in {processChunk(heap[ref], <<l>>)} :
            /\ heap' = [heap EXCEPT ![ref] = r.state]
            /\ connections' = [connections EXCEPT
                    ![c].chunks = Append(@, <<l>>),
                    ![c].results = r.results,
                    ![c].written = @ \o r.results]
        /\ UNCHANGED <<truncVars, srv, streamVars, response, estimate, cleanup, upstream>>

NextConnections == OpenStream \/ ReadChunk

SpecConnections == InitStream /\ [][NextConnections]_vars

----------------------------------------------------------------------------
(* Vocabulary of the properties, stated without the operators above *)

\* the blocks of a message (none when its content is a string)
Blocks(msg) == IF msg.isArray THEN {msg.content[k] : k \in 1..Len(msg.content)} ELSE {}

UseIds(msg) == {b.id : b \in {x \in Blocks(msg) : x.type = "tool_use"}}
ResultIds(msg) == {b.id : b \in {x \in Blocks(msg) : x.type = "tool_result"}}

\* a user message that has blocks, all of them tool_result
OnlyToolResults(msg) ==
    /\ msg.role = "user"
    /\ Blocks(msg) # {}
    /\ \A b \in Blocks(msg) : b.type = "tool_result"

\* a real user turn
RealUserTurn(msg) == msg.role = "user" /\ ~OnlyToolResults(msg)

\* the indices i > 0 at which a round starts
Boundaries(msgs) == {i \in 1..(Len(msgs) - 1) : RealUserTurn(At(msgs, i))}

NumRounds(msgs) == 1 + Cardinality(Boundaries(msgs))

Min(S) == CHOOSE x \in S : \A y \in S : x <= y
Max(S) == CHOOSE x \in S : \A y \in S : x >= y

\* the three global invariants of a transcript accepted for forwarding
GlobalInvariants(msgs) ==
    /\ Len(msgs) > 0
    /\ At(msgs, 0).role = "user"
    /\ \A i \in 1..(Len(msgs) - 1) : At(msgs, i).role # At(msgs, i - 1).role
    /\ \A i \in 0..(Len(msgs) - 1) :
         /\ UseIds(At(msgs, i)) \subseteq
              (IF i + 1 < Len(msgs) THEN ResultIds(At(msgs, i + 1)) ELSE {})
         /\ ResultIds(At(msgs, i)) \subseteq
              (IF i > 0 THEN UseIds(At(msgs, i - 1)) ELSE {})

\* the subsequence of msgs at the indices outside marked, in order
RECURSIVE Without(_, _, _)
Without(msgs, marked, i) ==
    IF i >= Len(msgs) THEN <<>>
    ELSE (IF i \in marked THEN <<>> ELSE <<At(msgs, i)>>) \o Without(msgs, marked, i + 1)

EstimateOf(msgs) == estimateTokens(system, tools, hasMessages, msgs)

Called == pc = "done"

----------------------------------------------------------------------------
(* C1: whenever truncateIfNeeded returns true on a transcript that satisfies the
   three global invariants, validateMessages reports no issue on the result. *)
C1_RoundRemovalKeepsTranscriptValid ==
    (Called /\ ret /\ GlobalInvariants(orig)) => issues = <<>>

(* C2: the rounds returned by groupIntoRounds partition the index range: the
   first starts at 0, each ends where the next starts, the last ends at the
   transcript length, and every index lies in exactly one round. *)
C2_RoundsPartition ==
    pc = "grouped" =>
      /\ Len(rounds) >= 1
      /\ rounds[1].startIdx = 0
      /\ \A k \in 1..(Len(rounds) - 1) : rounds[k].endIdx = rounds[k + 1].startIdx
      /\ rounds[Len(rounds)].endIdx = Len(orig)
      /\ \A i \in 0..(Len(orig) - 1) :
           Cardinality({k \in 1..Len(rounds) :
              rounds[k].startIdx <= i /\ i < rounds[k].endIdx}) = 1

C2_Witness ==
    /\ pc = "grouped"
    /\ Len(rounds) >= 3
    /\ \E k \in 1..Len(rounds) : rounds[k].msgCount >= 2
    /\ \E i \in 1..Len(orig) : OnlyToolResults(orig[i])

(* C3: groupIntoRounds places a round boundary at i > 0 exactly when message i
   is a user message not made only of tool_result blocks; no round holds a real
   user turn after its first message, and a user message made only of
   tool_result blocks is in the round of the message before it. *)
C3_BoundariesAtRealUserTurns ==
    pc = "grouped" =>
      /\ {rounds[k].startIdx : k \in 2..Len(rounds)} = Boundaries(orig)
      /\ Len(rounds) = NumRounds(orig)
      /\ \A k \in 1..Len(rounds) :
           \A i \in (rounds[k].startIdx + 1)..(rounds[k].endIdx - 1) :
              ~RealUserTurn(At(orig, i))
      /\ \A i \in 1..(Len(orig) - 1) :
           OnlyToolResults(At(orig, i)) =>
             \E k \in 1..Len(rounds) :
                rounds[k].startIdx <= i - 1 /\ i < rounds[k].endIdx

C3_Witness ==
    /\ pc = "grouped"
    /\ \E i \in 1..(Len(orig) - 1) : At(orig, i) = UserMixed /\ i \in Boundaries(orig)
    /\ \E i \in 1..(Len(orig) - 1) : OnlyToolResults(At(orig, i))
    /\ \E i \in 1..(Len(orig) - 1) : At(orig, i) = UserEmpty

(* C4: truncateIfNeeded returns true exactly when the call changed
   body.messages: on false, messages, system and tools are as before the call;
   on true, body.messages has strictly fewer messages than before. *)
C4_ReturnsTrueIffMutated ==
    [][(pc = "build" /\ pc' = "done") =>
          /\ system' = system /\ tools' = tools /\ hasMessages' = hasMessages
          /\ ret' <=> (messages' # messages)
          /\ ret' => Len(messages') < Len(messages)]_vars

C4_Witness ==
    /\ Called /\ ret
    /\ Len(messages) < Len(orig)
    /\ system = SysLen

(* C5: for a body whose estimate is exactly tokenLimit + 1, one call either
   returns true and leaves the estimate <= tokenLimit, or returns false and
   leaves the transcript unchanged. *)
C5_ConvergesFromOneOver ==
    (Called /\ EstimateOf(orig) = tokenLimit + 1) =>
       \/ ret /\ EstimateOf(messages) <= tokenLimit
       \/ ~ret /\ messages = orig

C5_Witness ==
    /\ Called /\ ret
    /\ EstimateOf(orig) = tokenLimit + 1
    /\ EstimateOf(messages) <= tokenLimit

(* C6: whenever the call removes anything, the first round and the last round
   of the original transcript are still there unchanged, the first at the
   start and the last at the end of the result. *)
C6_FirstAndLastRoundKept ==
    (Called /\ ret) =>
       \A first \in {Min(Boundaries(orig) \cup {Len(orig)})} :
       \A last \in {Max(Boundaries(orig) \cup {0})} :
          /\ Len(messages) >= first + (Len(orig) - last)
          /\ SubSeq(messages, 1, first) = SubSeq(orig, 1, first)
          /\ SubSeq(messages, Len(messages) - (Len(orig) - last) + 1, Len(messages))
               = SubSeq(orig, last + 1, Len(orig))

C6_Witness ==
    /\ Called /\ ret
    /\ Min(Boundaries(orig) \cup {Len(orig)}) >= 2
    /\ Len(orig) - Max(Boundaries(orig) \cup {0}) >= 2

\* tokens of the interior rounds 1..j of rnds (rnds[1] is round 0)
RECURSIVE InteriorTokens(_, _)
InteriorTokens(rnds, j) ==
    IF j <= 0 THEN 0 ELSE rnds[j + 1].tokens + InteriorTokens(rnds, j - 1)

(* C7: the rounds removed are a non-empty prefix r1..rk of the interior rounds,
   k the least number whose accumulated tokens reach the overage, or all the
   interior rounds when none does: r1..r(k-1) sum to less than the overage and
   no interior round is skipped. *)
C7_GreedyPrefixOfInteriorRounds ==
    (Called /\ ret) =>
       \A overage \in {EstimateOf(orig) - tokenLimit} :
       \A k \in {Len(roundsToRemove)} :
          /\ Len(rounds) = NumRounds(orig)
          /\ k >= 1
          /\ k <= Len(rounds) - 2
          /\ roundsToRemove = [j \in 1..k |-> j]
          /\ \A j \in 1..Len(rounds) :
               rounds[j].tokens = SumTokens(orig, rounds[j].startIdx, rounds[j].endIdx)
          /\ InteriorTokens(rounds, k - 1) < overage
          /\ InteriorTokens(rounds, k) >= overage \/ k = Len(rounds) - 2

C7_Witness ==
    /\ Called /\ ret
    /\ Len(roundsToRemove) = 2
    /\ Len(rounds) >= 5
    /\ InteriorTokens(rounds, 2) >= EstimateOf(orig) - tokenLimit

\* the indices of the messages of the marked rounds
MarkedIndices ==
    UNION {rounds[r + 1].startIdx..(rounds[r + 1].endIdx - 1) :
             r \in {roundsToRemove[j] : j \in 1..Len(roundsToRemove)}}

(* C8: after the removal the transcript is the original sequence with the
   messages of the marked rounds deleted: the survivors keep content and
   order, and nothing outside a marked round is removed. *)
C8_ExactlyMarkedRoundsDeleted ==
    (Called /\ ret) => messages = Without(orig, MarkedIndices, 0)

C8_Witness ==
    /\ Called /\ ret
    /\ Cardinality(MarkedIndices) >= 3
    /\ Len(roundsToRemove) >= 2
    /\ messages = Without(orig, MarkedIndices, 0)

(* C9: the call returns false without mutating the body whenever the estimate
   is <= tokenLimit, and whenever the transcript is over the limit but is
   missing or has at most MIN_MESSAGES_TO_KEEP messages. *)
C9_NoOpUnderLimitOrAtFloor ==
    (Called /\ (\/ EstimateOf(orig) <= tokenLimit
                \/ ~hasMessages
                \/ Len(orig) <= MIN_MESSAGES_TO_KEEP))
       => ~ret /\ messages = orig

C9_Witness ==
    /\ Called /\ ~ret
    /\ EstimateOf(orig) > tokenLimit
    /\ Len(orig) = MIN_MESSAGES_TO_KEEP
    /\ NumRounds(orig) >= 3

\* an adjacent (assistant with a tool_use, user with a tool_result) pair at
\* (i, i + 1) outside the first exchange and outside the trailing window
CandidatePair(msgs, i) ==
    /\ i + 1 < Len(msgs)
    /\ At(msgs, i).role = "assistant" /\ UseIds(At(msgs, i)) # {}
    /\ At(msgs, i + 1).role = "user" /\ ResultIds(At(msgs, i + 1)) # {}
    /\ i >= 2
    /\ i + 1 < Len(msgs) - MIN_MESSAGES_TO_KEEP

\* the indices of the candidate pairs taken greedily in scan order until their
\* accumulated tokens reach the overage
RECURSIVE PairScan(_, _, _, _, _)
PairScan(msgs, i, accumulated, picked, overage) ==
    IF i + 1 >= Len(msgs) THEN picked
    ELSE IF CandidatePair(msgs, i)
    THEN IF accumulated + SumTokens(msgs, i, i + 2) >= overage
         THEN picked \cup {i, i + 1}
         ELSE PairScan(msgs, i + 1, accumulated + SumTokens(msgs, i, i + 2),
                       picked \cup {i, i + 1}, overage)
    ELSE PairScan(msgs, i + 1, accumulated, picked, overage)

\* over budget, above the floor, and at most 2 rounds
AtMostTwoRoundsOverBudget ==
    /\ Called
    /\ hasMessages
    /\ EstimateOf(orig) > tokenLimit
    /\ Len(orig) > MIN_MESSAGES_TO_KEEP
    /\ NumRounds(orig) <= 2

(* C10: an over-budget transcript of more than MIN_MESSAGES_TO_KEEP messages
   that groups into at most 2 rounds falls back to removing candidate tool
   pairs greedily in scan order until their tokens reach the overage, and the
   call returns true iff at least one pair was removed. *)
C10_FallsBackToToolPairs ==
    AtMostTwoRoundsOverBudget =>
       \A picked \in {PairScan(orig, 0, 0, {}, EstimateOf(orig) - tokenLimit)} :
          /\ messages = Without(orig, picked, 0)
          /\ ret <=> picked # {}

(* C10 as amended: such a transcript is left unchanged and the call returns
   false; no tool pair is removed. *)
C10_NoRemovalBelowThreeRounds ==
    AtMostTwoRoundsOverBudget => ~ret /\ messages = orig

C10_Witness ==
    /\ AtMostTwoRoundsOverBudget
    /\ GlobalInvariants(orig)
    /\ PairScan(orig, 0, 0, {}, EstimateOf(orig) - tokenLimit) # {}
    /\ ~ret /\ messages = orig

----------------------------------------------------------------------------
(* C11: a request whose transcript is over the token budget has been through
   truncateIfNeeded by the time the upstream request is issued: the transcript
   sent upstream is the one a call truncateIfNeeded(body, tokenLimit) on the
   converted body leaves behind. *)
C11_TruncatedBeforeForward ==
    (srv.pc = "forwarded"
        /\ estimateTokens(system, tools, hasMessages, orig) > tokenLimit)
    => \A res \in {truncateIfNeeded(system, tools, hasMessages, orig, tokenLimit)} :
            srv.sent = res.messages

----------------------------------------------------------------------------
(* Vocabulary of the stream properties *)

\* the chunks among rs that are tool-call argument deltas
IsArgsChunk(r) == r.type = "chunk" /\ r.delta = "tool_args"
IsToolStartChunk(r) == r.type = "chunk" /\ r.delta = "tool_start"

RECURSIVE EmittedArguments(_, _, _, _)
\* the argument deltas of rs[k..] for tool call index i, concatenated after
\* acc, starting afresh at each tool-call-start chunk for i
EmittedArguments(rs, i, k, acc) ==
    IF k > Len(rs) THEN acc
    ELSE IF IsToolStartChunk(rs[k]) /\ rs[k].index = i
         THEN EmittedArguments(rs, i, k + 1, <<>>)
    ELSE IF IsArgsChunk(rs[k]) /\ rs[k].index = i
         THEN EmittedArguments(rs, i, k + 1, acc \o rs[k].arguments)
    ELSE EmittedArguments(rs, i, k + 1, acc)

----------------------------------------------------------------------------
(* C12: at every point of a stream of tool-call starts and partial_json
   fragments (incremental, cumulative or mixed, interleaved across indices),
   for each index the concatenation of the argument deltas emitted so far for
   the tool call at that index equals the tracker's accumulated arguments. *)
C12_DeltasReproduceAccumulated ==
    \A i \in ToolIndices :
        EmittedArguments(written, i, 1, <<>>) = state.toolCallsTracker[i].arguments

\* index 0 received "a" and then the cumulative "ab", emitted the delta "b",
\* and index 1 accumulated arguments in between
C12_Witness ==
    /\ \E j, k \in 1..Len(fed) :
            /\ j < k
            /\ fed[j] = ArgsDelta(0, <<"a">>)
            /\ fed[k] = ArgsDelta(0, <<"a", "b">>)
            /\ \E m \in (j + 1)..(k - 1) : fed[m].index = 1 /\ fed[m].partial_json /= <<>>
    /\ state.toolCallsTracker[0].arguments = <<"a", "b">>
    /\ state.toolCallsTracker[1].arguments /= <<>>
    /\ results = <<[Result("chunk", "tool_args") EXCEPT !.index = 0,
                                                       !.arguments = <<"b">>]>>

----------------------------------------------------------------------------
(* C18: a tool-argument delta for an index that has no tracker entry returns
   no result and leaves the tool-call tracker as it was. *)
C18_UnknownIndexDropped ==
    [][(/\ fed' /= fed
        /\ \E i \in ToolIndices, f \in ArgFrags :
                /\ chunk' = <<ArgsDelta(i, f)>>
                /\ ~state.toolCallsTracker[i].set)
       => (/\ results' = <<>>
           /\ written' = written
           /\ state'.toolCallsTracker = state.toolCallsTracker)]_vars

\* a fragment for index 1 has just been dropped while index 0 is registered
\* and holds arguments
C18_Witness ==
    /\ \E f \in ArgFrags : chunk = <<ArgsDelta(1, f)>>
    /\ ~state.toolCallsTracker[1].set
    /\ state.toolCallsTracker[0].set
    /\ state.toolCallsTracker[0].arguments /= <<>>
    /\ results = <<>>

----------------------------------------------------------------------------
(* Vocabulary of the thinking markup *)

RECURSIVE Rendered(_, _)
\* the content of the content chunks rs[k..], concatenated: what the client
\* displays
Rendered(rs, k) ==
    IF k > Len(rs) THEN <<>>
    ELSE (IF rs[k].type = "chunk" /\ rs[k].delta = "content"
          THEN rs[k].content ELSE <<>>) \o Rendered(rs, k + 1)

RECURSIVE ThinkingText(_, _)
\* the thinking text of the lines ls[k..], concatenated
ThinkingText(ls, k) ==
    IF k > Len(ls) THEN <<>>
    ELSE (IF ls[k].line = "data" THEN ls[k].thinking ELSE <<>>)
            \o ThinkingText(ls, k + 1)

Count(s, c) == Cardinality({k \in 1..Len(s) : s[k] = c})

IsInk(c) == c \in {"x", "y"}

RECURSIVE InkLines(_, _, _)
\* the number of lines of text[k..] that hold a character that is not
\* whitespace; ink says whether the line so far holds one
InkLines(text, k, ink) ==
    IF k > Len(text) THEN (IF ink THEN 1 ELSE 0)
    ELSE IF text[k] = "\n"
         THEN (IF ink THEN 1 ELSE 0) + InkLines(text, k + 1, FALSE)
         ELSE InkLines(text, k + 1, ink \/ IsInk(text[k]))

RECURSIVE ScanEmphasis(_, _, _)
\* reads r[k..] mark by mark; acc is [open, ink, ok, pairs]: an emphasis span
\* is open, it holds ink, no mark was misplaced so far, spans closed so far.
\* A span must hold ink and no newline or marker; ink must lie in a span.
ScanEmphasis(r, k, acc) ==
    IF k > Len(r) THEN acc
    ELSE IF r[k] = "*"
         THEN IF acc.open
              THEN ScanEmphasis(r, k + 1,
                    [open |-> FALSE, ink |-> FALSE, ok |-> acc.ok /\ acc.ink,
                     pairs |-> acc.pairs + 1])
              ELSE ScanEmphasis(r, k + 1, [acc EXCEPT !.open = TRUE, !.ink = FALSE])
    ELSE IF r[k] \in {"\n", "OPEN", "CLOSE"}
         THEN ScanEmphasis(r, k + 1, [acc EXCEPT !.ok = @ /\ ~acc.open])
    ELSE IF IsInk(r[k])
         THEN ScanEmphasis(r, k + 1, [acc EXCEPT !.ok = @ /\ acc.open, !.ink = TRUE])
    ELSE ScanEmphasis(r, k + 1, acc)

Emphasis(r) == ScanEmphasis(r, 1, [open |-> FALSE, ink |-> FALSE, ok |-> TRUE, pairs |-> 0])

\* the stream so far is thinking fragments followed by one close
ClosedThinkingRun ==
    /\ Len(fed) >= 2
    /\ \A k \in 1..(Len(fed) - 1) :
            fed[k].type = "content_block_delta" /\ fed[k].thinking /= <<>>
    /\ fed[Len(fed)].type \in {"content_block_stop", "message_stop"}

\* the rendered output up to the rule that follows the closing marker
UpToClose(r) == SubSeq(r, 1, Len(r) - 5)

----------------------------------------------------------------------------
(* C14: after thinking fragments, however split, and a close
   (content_block_stop, or message_stop while open) the rendered output starts
   with the one opening marker and ends with the one closing marker and its
   rule, every line of the thinking text that holds a non-whitespace character
   lies in an emphasis pair of its own, and no emphasis mark is unmatched,
   nested, spans a line break or is left open. *)
C14_ThinkingMarkupBalanced ==
    ClosedThinkingRun =>
        \A r \in {Rendered(written, 1)} :
        \A e \in {Emphasis(UpToClose(r))} :
            /\ Count(r, "OPEN") = 1 /\ r[1] = "OPEN"
            /\ Count(r, "CLOSE") = 1 /\ r[Len(r) - 7] = "CLOSE"
            /\ e.ok /\ ~e.open
            /\ e.pairs = InkLines(ThinkingText(fed, 1), 1, FALSE)

\* "x" / newline, space / newline, "x" / close: a line split over fragments,
\* a whitespace-only line, and a last line closed by content_block_stop
C14_Witness ==
    /\ fed = <<ThinkingDelta(<<"x">>), ThinkingDelta(<<"\n", " ">>),
               ThinkingDelta(<<"\n", "x">>), BlockStop>>
    /\ Emphasis(UpToClose(Rendered(written, 1))).pairs = 2
    /\ ~state.metricsData.inThinking

----------------------------------------------------------------------------
(* Vocabulary of the "answer started" marker *)

HasMarker(r) ==
    r.type = "chunk" /\ r.delta = "content" /\ StartsWith(r.content, ANSWER_MARKER)

MarkerCount(rs) == Cardinality({k \in 1..Len(rs) : HasMarker(rs[k])})

IsThinkingLine(l) == l.type = "content_block_delta" /\ l.thinking /= <<>>
IsTextLine(l) == l.type = "content_block_delta" /\ l.text /= <<>>
IsCloseLine(l) == l.type \in {"content_block_stop", "message_stop"}

RECURSIVE Segments(_, _, _)
\* reads ls[k..]; acc is [open, armed, opened]: a thinking segment is open, no
\* text has followed the opening of the last segment yet, segments opened so far
Segments(ls, k, acc) ==
    IF k > Len(ls) THEN acc
    ELSE IF IsThinkingLine(ls[k]) /\ ~acc.open
         THEN Segments(ls, k + 1,
                [open |-> TRUE, armed |-> TRUE, opened |-> acc.opened + 1])
    ELSE IF IsCloseLine(ls[k])
         THEN Segments(ls, k + 1, [acc EXCEPT !.open = FALSE])
    ELSE IF IsTextLine(ls[k])
         THEN Segments(ls, k + 1, [acc EXCEPT !.armed = FALSE])
    ELSE Segments(ls, k + 1, acc)

SegmentsOf(ls) == Segments(ls, 1, [open |-> FALSE, armed |-> FALSE, opened |-> 0])

----------------------------------------------------------------------------
(* C15: within one stream the "answer started" marker is emitted at most
   once, whatever the sequence of thinking and text blocks, and never when
   there was no thinking. *)
C15_MarkerOncePerResponse ==
    /\ MarkerCount(written) <= 1
    /\ (SegmentsOf(fed).opened = 0 => MarkerCount(written) = 0)

(* C15 as amended: the marker is prefixed to a text delta exactly when the
   delta is the first non-empty one since the last thinking segment was
   opened; so it is emitted at most once per thinking segment, and never
   when there was no thinking. *)
C15_MarkerOncePerThinkingSegment ==
    [][fed' /= fed =>
        /\ MarkerCount(written') <= SegmentsOf(fed').opened
        /\ \A f \in {<<"x">>, <<"y">>} :
                chunk' = <<TextDelta(f)>> =>
                    results' = <<ContentChunk(
                        (IF SegmentsOf(fed).armed THEN ANSWER_MARKER ELSE <<>>)
                            \o f)>>]_vars

\* thinking, close, text, thinking again, text: the second text delta has just
\* been given the second marker
C15_Witness ==
    /\ SegmentsOf(fed).opened = 2
    /\ MarkerCount(written) = 2
    /\ Len(results) = 1 /\ HasMarker(results[1])
    /\ Len(chunk) = 1 /\ IsTextLine(chunk[1])

----------------------------------------------------------------------------
(* Vocabulary of whole responses *)

RoleChunk == Result("chunk", "role")
FinishChunk(reason) == [Result("chunk", "empty") EXCEPT !.finish_reason = reason]
IsUsageChunk(r) == r.type = "chunk" /\ r.usage.present
IsCloseChunk(r) ==
    /\ r.type = "chunk" /\ r.delta = "content"
    /\ (r.content = THINKING_CLOSE \/ r.content = <<"*">> \o THINKING_CLOSE)

\* the stream so far is message_start, text deltas that carry text,
\* message_delta with end_turn, message_stop, and reports no usage
PlainTextResponse ==
    /\ Len(fed) >= 4
    /\ fed[1] = MessageStart(NoUsage)
    /\ \A k \in 2..(Len(fed) - 2) : IsTextLine(fed[k]) /\ fed[k] = TextDelta(fed[k].text)
    /\ fed[Len(fed) - 1] = MessageDelta("end_turn", NoUsage)
    /\ fed[Len(fed)] = MessageStop

----------------------------------------------------------------------------
(* C13: for message_start, one or more text deltas, message_delta with
   end_turn, message_stop and no usage anywhere, what has been emitted is
   exactly the role chunk, one content chunk per text delta with that text in
   order, the finish chunk with finish_reason "stop" and the terminator; no
   usage chunk. *)
C13_PlainTextResponseEmitted ==
    PlainTextResponse =>
        written = <<RoleChunk>>
                    \o [k \in 1..(Len(fed) - 3) |-> ContentChunk(fed[k + 1].text)]
                    \o <<FinishChunk("stop"), DoneResult>>

\* two text deltas "x", "y" between start and end
C13_Witness ==
    /\ fed = <<MessageStart(NoUsage), TextDelta(<<"x">>), TextDelta(<<"y">>),
               MessageDelta("end_turn", NoUsage), MessageStop>>
    /\ Len(written) = 5
    /\ results = <<DoneResult>>

----------------------------------------------------------------------------
(* C16: a message_stop event returns, in this order, the thinking-closing
   chunk exactly when a thinking segment was open (inThinking is false
   afterwards), then at most one usage chunk, present only when token counts
   were accumulated, then the terminator, which is last. *)
C16_MessageStopOrder ==
    [][(fed' /= fed /\ chunk' = <<MessageStop>>) =>
        \A closing \in {IF state.metricsData.inThinking THEN 1 ELSE 0} :
        \A r \in {results'} :
            /\ Len(r) \in {closing + 1, closing + 2}
            /\ r[Len(r)] = DoneResult
            /\ closing = 1 => IsCloseChunk(r[1])
            /\ \A k \in (closing + 1)..(Len(r) - 1) :
                    /\ IsUsageChunk(r[k])
                    /\ state'.metricsData.input_tokens
                         + state'.metricsData.output_tokens > 0
            /\ ~state'.metricsData.inThinking]_vars

\* message_stop with a thinking segment open and usage accumulated: close
\* chunk, usage chunk, terminator
C16_Witness ==
    /\ chunk = <<MessageStop>>
    /\ Len(results) = 3
    /\ IsCloseChunk(results[1])
    /\ IsUsageChunk(results[2])
    /\ results[3] = DoneResult

----------------------------------------------------------------------------
(* C19: a line whose payload does not parse returns nothing and leaves the
   ConverterState as it was, and the state and the results of the whole
   stream are those of the same stream without the lines that do not
   parse. *)
WellFormed(ls) == SelectSeq(ls, LAMBDA l : l.line /= "malformed")

C19_MalformedFrameIgnored ==
    [][fed' /= fed =>
        /\ chunk' = <<MalformedLine>> => (results' = <<>> /\ state' = state)
        /\ \A clean \in {processChunk(createConverterState, WellFormed(fed'))} :
                state' = clean.state /\ written' = clean.results]_vars

\* a chunk of a line that does not parse and a text delta, after the response
\* has started: the text delta is emitted
C19_Witness ==
    /\ chunk = <<MalformedLine, TextDelta(<<"x">>)>>
    /\ results = <<ContentChunk(<<"x">>)>>
    /\ state.metricsData.openAIId /= "null"
    /\ Len(fed) > Len(WellFormed(fed)) + 1

----------------------------------------------------------------------------
(* C17: at message_stop one usage chunk is returned if any of the accumulated
   input, output, cache-creation and cache-read counts is non-zero and none
   otherwise; its total_tokens is prompt_tokens + completion_tokens. *)
UsageChunksOf(rs) == SelectSeq(rs, IsUsageChunk)

TotalIsSum(rs) ==
    \A k \in 1..Len(rs) :
        IsUsageChunk(rs[k]) =>
            rs[k].usage.total_tokens
                = rs[k].usage.prompt_tokens + rs[k].usage.completion_tokens

C17_UsageChunkIffAnyCount ==
    (chunk = <<MessageStop>>) =>
        /\ Len(UsageChunksOf(results))
            = (IF state.metricsData.input_tokens + state.metricsData.output_tokens
                    + state.metricsData.cache_creation_input_tokens
                    + state.metricsData.cache_read_input_tokens > 0
               THEN 1 ELSE 0)
        /\ TotalIsSum(results)

(* C17 as amended: at message_stop one usage chunk is returned if the
   accumulated input or output count is non-zero and none otherwise, whatever
   the cache counts; it carries the accumulated input and output counts as
   prompt_tokens and completion_tokens and their sum as total_tokens. *)
C17_UsageChunkIffInputOrOutput ==
    (chunk = <<MessageStop>>) =>
        /\ Len(UsageChunksOf(results))
            = (IF state.metricsData.input_tokens + state.metricsData.output_tokens > 0
               THEN 1 ELSE 0)
        /\ TotalIsSum(results)
        /\ \A k \in 1..Len(results) :
                IsUsageChunk(results[k]) =>
                    /\ results[k].usage.prompt_tokens = state.metricsData.input_tokens
                    /\ results[k].usage.completion_tokens
                            = state.metricsData.output_tokens

\* message_stop after only cache-read tokens were reported: no usage chunk
C17_Witness ==
    /\ chunk = <<MessageStop>>
    /\ state.metricsData.cache_read_input_tokens > 0
    /\ state.metricsData.input_tokens = 0
    /\ state.metricsData.output_tokens = 0
    /\ results = <<DoneResult>>

----------------------------------------------------------------------------
(* C20: the finish chunk of the stream and the non-streaming response map the
   stop reason alike: end_turn to stop, tool_use to tool_calls, any other
   non-empty reason to itself. *)
MappedReason(r) ==
    CASE r = "end_turn" -> "stop"
      [] r = "tool_use" -> "tool_calls"
      [] OTHER -> r

C20_StopReasonMappedAlike ==
    /\ \A r \in StopReasons :
            chunk = <<MessageDelta(r, NoUsage)>>
                => results = <<FinishChunk(MappedReason(r))>>
    /\ (response.pc = "converted" /\ response.in.stop_reason /= "")
            => response.out.finish_reason = MappedReason(response.in.stop_reason)
    /\ (/\ response.pc = "converted" /\ response.in.stop_reason /= ""
        /\ chunk = <<MessageDelta(response.in.stop_reason, NoUsage)>>)
            => results[1].finish_reason = response.out.finish_reason

\* tool_use on both paths
C20_Witness ==
    /\ chunk = <<MessageDelta("tool_use", NoUsage)>>
    /\ results = <<FinishChunk("tool_calls")>>
    /\ response.pc = "converted"
    /\ response.in.stop_reason = "tool_use"
    /\ response.out.finish_reason = "tool_calls"

----------------------------------------------------------------------------
RECURSIVE Alone(_, _, _)
\* the chunks cs[k..] given one after another to processChunk on a state of
\* their own; acc is [state, written]
Alone(cs, k, acc) ==
    IF k > Len(cs) THEN acc
    ELSE \* one call
         LET r == processChunk(acc.state, cs[k])
         IN Alone(cs, k + 1, [state |-> r.state, written |-> acc.written \o r.results])

(* C21: with two connections whose handlers each created a ConverterState,
   after any interleaving of their processChunk calls each connection has
   emitted the results, and its state has the value, that its chunks give
   when processed alone from a fresh state; a call made for one connection
   leaves the state and the output of the other as they were. *)
C21_StreamsIsolated ==
    [][\A c \in Connections :
        /\ connections'[c].converterState /= 0 =>
            \A a \in {Alone(connections'[c].chunks, 1,
                            [state |-> createConverterState, written |-> <<>>])} :
                /\ heap'[connections'[c].converterState] = a.state
                /\ connections'[c].written = a.written
        /\ (connections[c].converterState /= 0
                /\ connections'[c].chunks = connections[c].chunks) =>
            /\ connections'[c] = connections[c]
            /\ heap'[connections[c].converterState]
                    = heap[connections[c].converterState]]_vars

\* both connections are in the middle of a response: one has an open thinking
\* segment, the other a registered tool call with arguments
C21_Witness ==
    /\ Len(connections[1].chunks) >= 2
    /\ Len(connections[2].chunks) >= 2
    /\ heap[connections[1].converterState].metricsData.inThinking
    /\ heap[connections[2].converterState].toolCallsTracker[0].arguments = <<"a">>
    /\ ~heap[connections[2].converterState].metricsData.inThinking

----------------------------------------------------------------------------
(* Vocabulary of the streaming handler *)

\* the units produced that are not written yet
Pending == SubSeq(srv.produced, Len(srv.out) + 1, Len(srv.produced))

\* the units of the chunk read last that are not written yet
PendingOfChunk == SubSeq(srv.units, srv.i + 1, Len(srv.units))

(* C22: whenever the streaming handler issues an upstream read, every unit
   produced from the chunks read before has been written and its write has
   completed, in the order produced; at all times the units written are a
   prefix of the units produced, at most one write is in flight, and the
   units not yet written all come from the one chunk read last. *)
C22_WritesAwaitedBeforeNextRead ==
    [][/\ srv'.reads /= srv.reads => (srv.out = srv.produced /\ srv.writes = Len(srv.out))
       /\ srv'.out = SubSeq(srv'.produced, 1, Len(srv'.out))
       /\ srv'.writes - Len(srv'.out) \in {0, 1}
       /\ srv'.failed \/ (Pending' = PendingOfChunk')]_vars

\* the second read is about to be issued after a chunk of three units, all
\* written
C22_Witness ==
    /\ srv.pc = "read"
    /\ srv.reads = 1
    /\ Len(srv.units) = 3
    /\ srv.out = srv.units
    /\ srv.writes = 3

(* C23: once an upstream read or a downstream write has failed, the handler
   issues no further read, no further write and no further upstream request;
   it goes straight to releasing the reader lock; and whichever way the loop
   ends (end of stream, read failure, write failure) the lock is released
   exactly once. *)
C23_FailureStopsAndReleasesOnce ==
    [][/\ srv.failed =>
            /\ srv'.reads = srv.reads
            /\ srv'.writes = srv.writes
            /\ srv'.fetches = srv.fetches
            /\ srv.pc \in {"finally", "closed"}
       /\ srv.pc = "finally" =>
            (srv'.pc = "closed" /\ srv'.releases = 1 /\ srv'.lock = "released")
       /\ srv'.releases <= 1
       /\ srv'.lock = "held" <=> srv'.pc \in {"read", "reading", "write", "writing", "finally"}
       /\ srv'.pc = "closed" => srv'.releases = 1]_vars

\* a write failed in the middle of a chunk of three units after one was
\* written; the lock has been released
C23_Witness ==
    /\ srv.pc = "closed"
    /\ srv.failed
    /\ Len(srv.units) = 3
    /\ srv.i = 1
    /\ srv.writes = 2
    /\ srv.releases = 1

(* C24: a non-2xx upstream response is surfaced as one of two outcomes: 401
   as a 401 authentication failure, any other status as a response with the
   upstream status and error text; and there is at most one upstream request
   per inbound request. *)
C24_NonOkSurfacedByStatus ==
    /\ srv.fetches <= 1
    /\ (srv.upstream /= 0 /\ ~Ok(srv.upstream)) =>
            /\ srv.pc = "responded"
            /\ srv.upstream = 401 =>
                    (srv.status = 401 /\ srv.kind = "authentication failed")
            /\ srv.upstream /= 401 =>
                    (srv.status = srv.upstream /\ srv.kind = "upstream error")

(* C24 as amended: the two outcomes are those of a non-2xx response whose
   error text was read; when reading it throws, as when the upstream request
   itself throws, the client gets a 500 proxy error.  In every case there is
   at most one upstream request per inbound request. *)
C24_NonOkSurfacedOrProxyError ==
    /\ srv.fetches <= 1
    /\ (srv.upstream /= 0 /\ ~Ok(srv.upstream)) =>
            /\ srv.pc = "responded"
            /\ \/ srv.status = 500 /\ srv.kind = "proxy error"
               \/ srv.upstream = 401 /\ srv.status = 401
                    /\ srv.kind = "authentication failed"
               \/ srv.upstream /= 401 /\ srv.status = srv.upstream
                    /\ srv.kind = "upstream error"
    /\ (srv.pc = "responded" /\ srv.fetches = 1 /\ srv.upstream = 0) =>
            (srv.status = 500 /\ srv.kind = "proxy error")
    /\ srv.kind = "authentication failed" => srv.status = 401
    /\ srv.kind = "upstream error" =>
            (srv.status = srv.upstream /\ ~Ok(srv.upstream) /\ srv.upstream /= 401)

\* the upstream answered 429 and the client got 429 with the error text
C24_Witness ==
    /\ srv.pc = "responded"
    /\ srv.fetches = 1
    /\ srv.upstream = 429
    /\ srv.status = 429
    /\ srv.kind = "upstream error"

----------------------------------------------------------------------------
(* C25: validateMessages returns no issue for a non-empty transcript exactly
   when the first message is a user message, no two consecutive messages have
   the same role, every tool_result id of a message is among the tool_use ids
   of the message just before it and every tool_use id of a message is among
   the tool_result ids of the message just after it; for an empty transcript
   it returns an issue. *)
C25_NoIssuesIffGlobalInvariants ==
    pc = "validated" =>
        /\ messages = orig
        /\ IF Len(orig) = 0 THEN issues /= <<>>
           ELSE (issues = <<>>) <=> GlobalInvariants(orig)

\* a valid transcript with a tool call answered in the next message and a
\* second tool call answered together with text
C25_Witness ==
    /\ pc = "validated"
    /\ orig = <<UserText, AsstToolUse, UserResult, AsstMixed, UserResult2>>
    /\ issues = <<>>

(* C26: validation is advisory.  Whenever the call has marked at least one
   round for removal it returns true and the transcript it leaves is the
   original without the messages of the marked rounds, whether or not
   validateMessages reported issues on it: nothing is repaired and nothing
   is put back. *)
C26_ValidationAdvisory ==
    (Called /\ Len(roundsToRemove) > 0) =>
        /\ ret
        /\ messages = Without(orig, MarkedIndices, 0)
        /\ issues = validateMessages(messages)

\* a removal after which validation reports an orphaned tool_result, and the
\* call has returned true all the same
C26_Witness ==
    /\ Called /\ ret
    /\ Len(roundsToRemove) > 0
    /\ \E k \in 1..Len(issues) : issues[k].kind = "orphaned tool_result"
    /\ Len(messages) < Len(orig)

----------------------------------------------------------------------------
(* Vocabulary of the image estimate *)

IsImage(b) == b.type = "image"

\* msgs with the payload of every image given n characters
WithPayload(msgs, n) ==
    [k \in 1..Len(msgs) |->
        IF msgs[k].isArray
        THEN [msgs[k] EXCEPT !.content =
                [j \in 1..Len(msgs[k].content) |->
                    IF IsImage(msgs[k].content[j])
                    THEN [msgs[k].content[j] EXCEPT !.len = n]
                    ELSE msgs[k].content[j]]]
        ELSE msgs[k]]

RECURSIVE NumImages(_)
NumImages(msgs) ==
    IF msgs = <<>> THEN 0
    ELSE Cardinality({j \in 1..Len(Head(msgs).content) : IsImage(Head(msgs).content[j])})
            + NumImages(Tail(msgs))

(* C27: for a body whose messages hold images with a base64 source, the
   estimate does not depend on the length of the payloads: it is the text
   estimate of the body with each payload replaced by the 7-character
   placeholder, plus TOKENS_PER_IMAGE for each image, and the body with every
   payload replaced by another one has the same estimate. *)
C27_ImageEstimateIgnoresPayload ==
    (pc = "estimated" /\ hasMessages) =>
        /\ estimate =
                CeilTokens(BodyJson(system, tools, TRUE,
                                    WithPayload(orig, IMAGE_PLACEHOLDER_LEN)))
                    + TOKENS_PER_IMAGE * NumImages(orig)
        /\ \A n \in Payloads \cup {0} :
                estimateTokens(system, tools, TRUE, WithPayload(orig, n)) = estimate

\* a transcript with a large and a small payload
C27_Witness ==
    /\ pc = "estimated"
    /\ NumImages(orig) >= 3
    /\ \E k \in 1..Len(orig) :
            orig[k].isArray /\ \E j \in 1..Len(orig[k].content) :
                orig[k].content[j] = ImageBlock(LargePayload)
    /\ estimate >= 3 * TOKENS_PER_IMAGE
    /\ estimate < 3 * TOKENS_PER_IMAGE + LargePayload \div 4

----------------------------------------------------------------------------
\* a block that adds characters to the text of the response
ProducesText(b) == b.type \in {"text", "thinking"} /\ b.text /= <<>>

(* C28: in the non-streaming response message.content is null exactly when
   no content block produced text (no text block with characters and no
   thinking block with thinking), and when it is not null it is not the empty
   string; for any sequence of text, thinking and tool_use blocks, none
   included. *)
C28_ContentNullUnlessText ==
    response.pc = "converted" =>
        /\ response.out.contentNull <=>
                ~\E k \in 1..Len(response.in.content) :
                        ProducesText(response.in.content[k])
        /\ ~response.out.contentNull => response.out.content /= <<>>

\* an empty text block only: content is null
C28_Witness ==
    /\ response.pc = "converted"
    /\ response.in.content = <<Block("text", <<>>)>>
    /\ response.out.contentNull

----------------------------------------------------------------------------
(* Vocabulary of the markup structure *)

RECURSIVE ScanStructure(_, _, _)
\* reads r[k..]; acc is [open, span, tokens]: an emphasis span is open, its
\* characters so far, the tokens read so far.  A token is <<"OPEN">>,
\* <<"CLOSE">> or <<"*">> followed by the characters of a span without the
\* whitespace around them; characters outside spans are not markup.
ScanStructure(r, k, acc) ==
    IF k > Len(r) THEN acc
    ELSE IF r[k] = "*"
         THEN IF acc.open
              THEN ScanStructure(r, k + 1,
                    [open |-> FALSE, span |-> <<>>,
                     tokens |-> Append(acc.tokens, <<"*">> \o Trim(acc.span))])
              ELSE ScanStructure(r, k + 1, [acc EXCEPT !.open = TRUE, !.span = <<>>])
    ELSE IF r[k] \in {"OPEN", "CLOSE"}
         THEN ScanStructure(r, k + 1, [acc EXCEPT !.tokens = Append(@, <<r[k]>>)])
    ELSE IF acc.open
         THEN ScanStructure(r, k + 1, [acc EXCEPT !.span = Append(@, r[k])])
    ELSE ScanStructure(r, k + 1, acc)

Structure(r) == ScanStructure(r, 1, [open |-> FALSE, span |-> <<>>, tokens |-> <<>>])

\* the upstream response that holds text as its one thinking block
ThinkingResponse(text) ==
    [stop_reason |-> "end_turn", usage |-> NoUsage,
     content |-> <<Block("thinking", text)>>]

(* C29: for the same thinking text, fed as fragments through processChunk and
   closed, or given as one thinking block to convertNonStreamingResponse, the
   two outputs have the same markup structure: the opening marker, then one
   emphasis pair around each line that holds a non-whitespace character, the
   same lines in the same order, then the closing marker; nothing is left
   open. *)
C29_SameThinkingStructure ==
    ClosedThinkingRun =>
        \A text \in {ThinkingText(fed, 1)} :
        \A streamed \in {Structure(Rendered(written, 1))} :
        \A whole \in {Structure(convertNonStreamingResponse(ThinkingResponse(text)).content)} :
            /\ streamed.tokens = whole.tokens
            /\ ~streamed.open /\ ~whole.open
            /\ Len(whole.tokens) = InkLines(text, 1, FALSE) + 2
            /\ Head(whole.tokens) = <<"OPEN">>
            /\ whole.tokens[Len(whole.tokens)] = <<"CLOSE">>

\* " x", " " newline, "x ": two lines with whitespace around them, split over
\* three fragments
C29_Witness ==
    /\ fed = <<ThinkingDelta(<<" ", "x">>), ThinkingDelta(<<" ", "\n">>),
               ThinkingDelta(<<"x", " ">>), BlockStop>>
    /\ Structure(Rendered(written, 1)).tokens
            = <<<<"OPEN">>, <<"*", "x">>, <<"*", "x">>, <<"CLOSE">>>>

----------------------------------------------------------------------------
(* C30: when the middle-removal truncateIfNeeded returns true on a transcript
   that satisfies the global invariants, the original first message is still
   the first message, the original last MIN_MESSAGES_TO_KEEP messages are,
   unchanged, the final messages of the result, and the first two messages
   are as they were: only messages strictly between the first two and the last
   four are removed or altered. *)

\* the last n messages of a transcript of at least n messages
LastMessages(msgs, n) == SubSeq(msgs, Len(msgs) - n + 1, Len(msgs))

MiddleCalled == pc = "truncated"

C30_MiddleRemovalKeepsEnds ==
    (MiddleCalled /\ ret /\ GlobalInvariants(orig)) =>
        \* none of the first two and the last four messages is removed
        /\ Len(messages) >= preserveStart + MIN_MESSAGES_TO_KEEP
        /\ At(messages, 0) = At(orig, 0)
        /\ SubSeq(messages, 1, preserveStart) = SubSeq(orig, 1, preserveStart)
        /\ LastMessages(messages, MIN_MESSAGES_TO_KEEP)
             = LastMessages(orig, MIN_MESSAGES_TO_KEEP)

----------------------------------------------------------------------------
(* C31: whenever the multi-pass cleanupOrphanedToolMessages returns after a
   pass that made no change, the message array is empty or satisfies the
   global invariants: first message user, no two adjacent messages of one
   role, every tool_result paired with a tool_use of the message right before
   it and every tool_use with a tool_result of the message right after it. *)

Cleaned == pc = "cleaned"

C31_StableCleanupIsValid ==
    (Cleaned /\ ~cleanup.changed) => (messages = <<>> \/ GlobalInvariants(messages))

\* a cleanup that needed a second pass to find nothing more to remove, and
\* left a transcript shorter than the one it was given
C31_Witness ==
    /\ Cleaned
    /\ ~cleanup.changed
    /\ cleanup.passes >= 3
    /\ ~GlobalInvariants(orig)
    /\ messages # <<>>
    /\ Len(messages) < Len(orig)

----------------------------------------------------------------------------
(* C32: the multi-pass cleanupOrphanedToolMessages always terminates, and it
   returns only after a complete pass in which no block and no message was
   removed. *)

C32_ReturnsOnlyWhenStable ==
    Cleaned => (cleanup.passes <= MaxPasses /\ ~cleanup.changed)

----------------------------------------------------------------------------
(* C33: when the middle-removal truncateIfNeeded with the single-pass
   cleanupOrphanedToolMessages returns true on a transcript that satisfies
   the global invariants, the resulting transcript satisfies them again. *)

C33_SinglePassCleanupKeepsValid ==
    (pc = "truncatedGlobal" /\ ret /\ GlobalInvariants(orig)) => GlobalInvariants(messages)

----------------------------------------------------------------------------
(* C34: the results of a stream depend only on the upstream byte stream, not
   on how it is cut into chunks: once the chunks read end at the end of a
   frame, the results returned for them, in order, are the results
   processChunk returns on a fresh state for the same bytes in one chunk. *)

C34_SplitIndependent ==
    ~upstream.inside =>
        written = processChunk(createConverterState, upstream.lines).results

----------------------------------------------------------------------------
(* C35: whenever the round-based truncateIfNeeded stops marking rounds because
   the accumulated token estimates of the marked rounds reached the overage,
   the estimate of the whole body after the removal is at most tokenLimit. *)

C35_ReachedOverageFitsLimit ==
    (Called /\ ret
        /\ InteriorTokens(rounds, Len(roundsToRemove)) >= EstimateOf(orig) - tokenLimit)
    => EstimateOf(messages) <= tokenLimit

----------------------------------------------------------------------------
(* C36: after any call to the round-based truncateIfNeeded on a transcript of
   n messages, body.messages still holds at least min(n, MIN_MESSAGES_TO_KEEP)
   messages. *)

C36_FloorKept ==
    Called => Len(messages) >= Min({Len(orig), MIN_MESSAGES_TO_KEEP})

----------------------------------------------------------------------------
(* C37: in every reachable ConverterState the opening thinking markers emitted
   so far outnumber the closing ones by 1 when inThinking and by 0 otherwise,
   and an emphasis span is open exactly when inThinking and not needsBullet;
   a content_block_stop returns the closing markup when inThinking was true
   and nothing otherwise. *)

\* an emphasis span is open at the end of the rendered output r
SpanOpen(r) == Count(r, "*") % 2 = 1

MarkersMatchState ==
    \A r \in {Rendered(written, 1)} :
        /\ Count(r, "OPEN") - Count(r, "CLOSE")
                = (IF state.metricsData.inThinking THEN 1 ELSE 0)
        /\ SpanOpen(r) <=> (state.metricsData.inThinking /\ ~state.metricsData.needsBullet)

StopClosesIffThinking ==
    chunk' = <<BlockStop>> =>
        IF state.metricsData.inThinking
        THEN /\ Len(results') = 1
             /\ Count(Rendered(results', 1), "CLOSE") = 1
             /\ ~state'.metricsData.inThinking
        ELSE results' = <<>> /\ state' = state

C37_MarkersFollowInThinking == []MarkersMatchState /\ [][StopClosesIffThinking]_vars

\* a second thinking segment is open inside an emphasis span after the first
\* was closed by content_block_stop
C37_Witness ==
    /\ Len(fed) = 3
    /\ fed[2] = BlockStop
    /\ state.metricsData.inThinking /\ ~state.metricsData.needsBullet
    /\ Count(Rendered(written, 1), "OPEN") = 2
    /\ Count(Rendered(written, 1), "CLOSE") = 1

----------------------------------------------------------------------------
(* C38: a tool_use content_block_start at index k returns one tool-call-start
   chunk and leaves tracker[k] registered with empty arguments whatever was
   there before, with the tracker entries at the other indices and the
   thinking flags unchanged; and no step of the stream removes a tracker
   entry once it is registered. *)

ThinkingFlags(st) ==
    <<st.metricsData.inThinking, st.metricsData.hadThinking,
      st.metricsData.answerStarted, st.metricsData.needsBullet>>

ToolStartRegisters ==
    \A i \in ToolIndices \cup {-1} :
        chunk' = <<BlockStart(i, "tool_use")>> =>
            \A k \in {IF i < 0 THEN 0 ELSE i} :
                /\ Len(results') = 1
                /\ results'[1].type = "chunk" /\ results'[1].delta = "tool_start"
                /\ results'[1].index = k
                /\ state'.toolCallsTracker[k].set
                /\ state'.toolCallsTracker[k].arguments = <<>>
                /\ \A j \in ToolIndices \ {k} :
                        state'.toolCallsTracker[j] = state.toolCallsTracker[j]
                /\ ThinkingFlags(state') = ThinkingFlags(state)

EntriesStay ==
    \A k \in ToolIndices : state.toolCallsTracker[k].set => state'.toolCallsTracker[k].set

C38_ToolStartRegistersAndStays == [][fed' /= fed => (ToolStartRegisters /\ EntriesStay)]_vars

\* index 0 was registered, took arguments, saw a content_block_stop and has
\* just been registered again: its accumulated arguments are empty
C38_Witness ==
    /\ Len(fed) = 5
    /\ chunk = <<BlockStart(0, "tool_use")>>
    /\ \E k \in 1..4 : fed[k] = ArgsDelta(0, <<"a">>)
    /\ state.toolCallsTracker[0].arguments = <<>>
    /\ state.toolCallsTracker[0].set
    /\ \E k \in 1..4 : fed[k] = BlockStop

----------------------------------------------------------------------------
(* C39: when every non-empty partial_json fragment of a tool call is the next
   piece of its argument string, the concatenation of the argument deltas
   emitted for the call and the tracker's accumulated arguments both equal the
   concatenation of the fragments, whatever the fragments are. *)

RECURSIVE SentArguments(_, _, _, _)
\* the partial_json fragments of ls[k..] for tool call index i, concatenated
\* after acc.text, starting afresh at each tool_use start for i; fragments
\* that arrive before the first start belong to no call
SentArguments(ls, i, k, acc) ==
    IF k > Len(ls) THEN acc.text
    ELSE IF ls[k].type = "content_block_start" /\ ls[k].block = "tool_use"
            /\ IndexOf(ls[k]) = i
         THEN SentArguments(ls, i, k + 1, [set |-> TRUE, text |-> <<>>])
    ELSE IF ls[k].type = "content_block_delta" /\ IndexOf(ls[k]) = i /\ acc.set
         THEN SentArguments(ls, i, k + 1, [acc EXCEPT !.text = @ \o ls[k].partial_json])
    ELSE SentArguments(ls, i, k + 1, acc)

C39_IncrementalFragmentsConcatenate ==
    \A i \in ToolIndices :
        \A sent \in {SentArguments(fed, i, 1, [set |-> FALSE, text |-> <<>>])} :
            /\ EmittedArguments(written, i, 1, <<>>) = sent
            /\ state.toolCallsTracker[i].arguments = sent

====
